---- MODULE Spec2Model ----
(***************************************************************************)
(* Request-governance and adaptive-polling engine of openclaw-moltbook:    *)
(* RateLimiter (monitor/rate_limiter.py), BackoffHandler                   *)
(* (monitor/backoff.py), DeduplicationTracker (monitor/deduplication.py)   *)
(* and PollingScheduler (monitor/scheduler.py).                            *)
(*                                                                         *)
(* Time is a discrete clock `now`; timestamps are clock readings.  Python  *)
(* None is NoneInt for optional numbers and NoneStr for optional strings.  *)
(***************************************************************************)
EXTENDS Integers, Sequences, FiniteSets, TLC

VARIABLES
    now,              \* the wall clock: time.time() / datetime.now(UTC)
    ret,              \* what the last operation returned
    \* RateLimiter
    config,           \* RateLimiter.config
    minute_requests,  \* RateLimiter.minute_requests (deque of timestamps)
    hour_requests,    \* RateLimiter.hour_requests
    day_requests,     \* RateLimiter.day_requests
    api_state,        \* RateLimiter.api_state
    budget_usage,     \* RateLimiter.budget_usage
    \* BackoffHandler
    backoff_config,   \* BackoffHandler.config
    endpoint_states,  \* BackoffHandler.endpoint_states
    since_error,      \* history: record_success calls since the last
                      \* record_error of each endpoint (counted up to 3)
    \* PollingScheduler
    poll_states,      \* PollingScheduler.poll_states
    samples,          \* PollingScheduler.activity_tracker.samples
    scheduler,        \* PollingScheduler.scheduler and its jobs
    poll_callback,    \* PollingScheduler.poll_callback is set
    shutdown_event,   \* PollingScheduler.shutdown_event is set
    running,          \* PollingScheduler._running
    \* Threads calling into the components
    threads,          \* each thread's position and local variables
    lock,             \* RateLimiter._lock: its owner, 0 when free
    completed,        \* history: calls completed, per operation and key
    objects,          \* the objects threads hold references to
    state_of,         \* endpoint_states as references into objects
    record_of,        \* DeduplicationTracker.by_id as references
    hash_of,          \* DeduplicationTracker.by_hash, for the threads
    \* DeduplicationTracker
    ttl,              \* DeduplicationTracker.ttl
    by_id,            \* DeduplicationTracker.by_id
    by_hash,          \* DeduplicationTracker.by_hash
    marked,           \* history: the mark_seen calls per identity
    returned,         \* history: the posts filter_new returned and marked
    \* RobotsDirectives
    rules,            \* RobotsDirectives.rules
    \* RobotsChecker
    user_agent,       \* RobotsChecker.user_agent
    directives_list,  \* the parsed blocks _find_matching_directives is given
    cache_duration,   \* RobotsChecker.cache_duration
    cache,            \* RobotsChecker.cache
    site,             \* what a GET of each origin's robots.txt gives now
    \* The scheduler's timer firings and a stop() call under way
    firings,          \* each endpoint type's job: not running, past the
                      \* shutdown test, or inside the poll callback
    stop_call         \* the stop() call: its position, its wait argument and
                      \* the firings under way when it set shutdown_event

rlVars == <<config, minute_requests, hour_requests, day_requests,
            api_state, budget_usage>>

boVars == <<backoff_config, endpoint_states, since_error>>

schedVars == <<poll_states, samples, scheduler, poll_callback,
               shutdown_event, running>>

heapVars == <<objects, state_of, record_of, hash_of>>

threadVars == <<threads, lock, completed, heapVars>>

ddVars == <<ttl, by_id, by_hash, marked, returned>>

checkerVars == <<user_agent, directives_list, cache_duration, cache, site>>

robVars == <<rules, checkerVars>>

shutVars == <<firings, stop_call>>

vars == <<now, ret, rlVars, boVars, schedVars, threadVars, ddVars, robVars,
          shutVars>>

\* What an operation of one component leaves alone.
rlOthers == <<boVars, schedVars, threadVars, ddVars, robVars, shutVars>>
boOthers == <<rlVars, schedVars, threadVars, ddVars, robVars, shutVars>>
schedOthers == <<rlVars, boVars, threadVars, ddVars, robVars, shutVars>>

NoneInt == -1
NoneStr == "None"
RetNone == [op |-> "none"]

(***************************************************************************)
(* Bounds of the model.                                                    *)
(***************************************************************************)
MaxTime == 5
MaxRequests == 3
MinuteWindow == 2
HourWindow == 3
DayWindow == 4
MaxErrors == 3
MaxSuccesses == 3
BackoffMaxTime == 2
ExponentBound == 2
NumThreads == 2
CallsPerThread == 2
ThreadMaxTime == 1
MaxSeen == 2
DedupMaxTime == 3
SmallTtl == 2
MaxBatch == 2
MaxRules == 2
MaxBlocks == 2
RobotsMaxTime == 2
SmallCacheDuration == 1
MaxPollErrors == 1
MaxSamples == 3
MaxPostsFetched == 45
MaxShortSteps == 1
MaxLongSteps == 1
MaxActivitySteps == 2

(***************************************************************************)
(* RateLimiter                                                             *)
(***************************************************************************)
RequestBudget == {"new_posts", "trending", "comments", "agents", "reserve"}

\* Allocation fractions, in hundredths.
BUDGET_ALLOCATION ==
    [new_posts |-> 40, trending |-> 20, comments |-> 20, agents |-> 10,
     reserve |-> 10]

RateLimitConfig(rpm, rph, rpd, mw, hw, dw) ==
    [requests_per_minute |-> rpm, requests_per_hour |-> rph,
     requests_per_day |-> rpd, minute_window |-> mw, hour_window |-> hw,
     day_window |-> dw]

\* RateLimitConfig(): the defaults.
DefaultRateLimitConfig == RateLimitConfig(100, 5000, 50000, 60, 3600, 86400)

\* Limits of a few requests over windows of a few clock units.
SmallRateLimitConfig(rpm, rph, rpd) ==
    RateLimitConfig(rpm, rph, rpd, MinuteWindow, HourWindow, DayWindow)

RateLimitState0 ==
    [limit |-> NoneInt, remaining |-> NoneInt, reset_at |-> NoneInt,
     last_updated |-> NoneInt]

RateLimiterInit(cfgs) ==
    /\ config \in cfgs
    /\ minute_requests = <<>>
    /\ hour_requests = <<>>
    /\ day_requests = <<>>
    /\ api_state = RateLimitState0
    /\ budget_usage = [b \in RequestBudget |-> 0]

RECURSIVE PopOld(_, _)
\* Mutant: at most one timestamp is dropped.
PopOldOnce(q, cutoff) ==
    IF q # <<>> /\ Head(q) < cutoff THEN Tail(q) ELSE q

\* while q and q[0] < cutoff: q.popleft()
PopOld(q, cutoff) ==
    IF q # <<>> /\ Head(q) < cutoff THEN PopOld(Tail(q), cutoff) ELSE q

\* The three deques after _cleanup_old_requests(t).
CleanMinuteAt(t) == PopOld(minute_requests, t - config.minute_window)
CleanHourAt(t) == PopOld(hour_requests, t - config.hour_window)
CleanDayAt(t) == PopOld(day_requests, t - config.day_window)

\* _get_counts(now): the cleanup is part of every query.
CleanupOldRequests ==
    /\ minute_requests' = CleanMinuteAt(now)
    /\ hour_requests' = CleanHourAt(now)
    /\ day_requests' = CleanDayAt(now)

\* int(requests_per_minute * BUDGET_ALLOCATION[b])
MaxForBudget(b) == (config.requests_per_minute * BUDGET_ALLOCATION[b]) \div 100

\* The hard limits of can_request, checked at time t.
HardLimitedAt(t) ==
    \/ Len(CleanMinuteAt(t)) >= config.requests_per_minute
    \/ Len(CleanHourAt(t)) >= config.requests_per_hour
    \/ Len(CleanDayAt(t)) >= config.requests_per_day

\* The API-reported block of can_request, checked at time t.
ApiBlockedAt(t) ==
    /\ api_state.remaining # NoneInt
    /\ api_state.remaining <= 0
    /\ api_state.reset_at # NoneInt
    /\ t < api_state.reset_at

\* Mutant: the reserve is never lent.
BudgetExhaustedNoReserve(budget) ==
    /\ budget # NoneStr
    /\ budget_usage[budget] >= MaxForBudget(budget)

\* The budget check of can_request.
BudgetExhausted(budget) ==
    /\ budget # NoneStr
    /\ budget_usage[budget] >= MaxForBudget(budget)
    /\ MaxForBudget("reserve") - budget_usage["reserve"] <= 0

\* The value can_request(budget) returns when called at time t.
CanRequestAt(t, budget) ==
    IF HardLimitedAt(t) THEN FALSE
    ELSE IF ApiBlockedAt(t) THEN FALSE
    ELSE IF BudgetExhausted(budget) THEN FALSE
    ELSE TRUE

CanRequest(budget) == CanRequestAt(now, budget)

\* (oldest + window) - now, oldest being q[0] if q else now
WindowWait(q, window, t) == (IF q # <<>> THEN Head(q) ELSE t) + window - t

\* The value wait_time() returns when called at time t.
WaitTimeAt(t) ==
    LET wm == WindowWait(CleanMinuteAt(t), config.minute_window, t)
        wh == WindowWait(CleanHourAt(t), config.hour_window, t)
        wd == WindowWait(CleanDayAt(t), config.day_window, t)
        wr == api_state.reset_at - t
    IN  IF Len(CleanMinuteAt(t)) >= config.requests_per_minute /\ wm > 0
        THEN wm
        ELSE IF Len(CleanHourAt(t)) >= config.requests_per_hour /\ wh > 0
        THEN wh
        ELSE IF Len(CleanDayAt(t)) >= config.requests_per_day /\ wd > 0
        THEN wd
        ELSE IF /\ api_state.remaining # NoneInt
                /\ api_state.remaining <= 0
                /\ api_state.reset_at # NoneInt
                /\ wr > 0
        THEN wr
        ELSE 0

WaitTime == WaitTimeAt(now)

TotalUsage ==
    budget_usage["new_posts"] + budget_usage["trending"]
    + budget_usage["comments"] + budget_usage["agents"]
    + budget_usage["reserve"]

\* RateLimiter.can_request(budget)
DoCanRequest(budget) ==
    /\ CleanupOldRequests
    /\ ret' = [op |-> "can_request", budget |-> budget,
               val |-> CanRequest(budget)]
    /\ UNCHANGED <<now, config, api_state, budget_usage, rlOthers>>

\* RateLimiter.record_request(budget)
RecordRequest(budget) ==
    /\ Len(day_requests) < MaxRequests
    /\ TotalUsage < MaxRequests
    /\ minute_requests' = Append(minute_requests, now)
    /\ hour_requests' = Append(hour_requests, now)
    /\ day_requests' = Append(day_requests, now)
    /\ budget_usage' = [budget_usage EXCEPT ![budget] = @ + 1]
    /\ ret' = RetNone
    /\ UNCHANGED <<now, config, api_state, rlOthers>>

\* RateLimitState.update_from_headers
UpdateFromHeaders(limit, remaining, reset_timestamp) ==
    [limit |-> IF limit # NoneInt THEN limit ELSE api_state.limit,
     remaining |-> IF remaining # NoneInt THEN remaining
                   ELSE api_state.remaining,
     reset_at |-> IF reset_timestamp # NoneInt THEN reset_timestamp
                  ELSE api_state.reset_at,
     last_updated |-> now]

\* RateLimiter.update_from_response(limit, remaining, reset_timestamp)
UpdateFromResponse(limit, remaining, reset_timestamp) ==
    /\ api_state' = UpdateFromHeaders(limit, remaining, reset_timestamp)
    /\ ret' = RetNone
    /\ UNCHANGED <<now, config, minute_requests, hour_requests, day_requests,
                   budget_usage, rlOthers>>

\* RateLimiter.wait_time()
DoWaitTime ==
    /\ CleanupOldRequests
    /\ ret' = [op |-> "wait_time", val |-> WaitTime]
    /\ UNCHANGED <<now, config, api_state, budget_usage, rlOthers>>

\* RateLimiter.get_status()
GetStatus ==
    /\ CleanupOldRequests
    /\ ret' = [op |-> "get_status", used |-> Len(CleanMinuteAt(now)),
               can_request |-> CanRequest(NoneStr),
               wait_time_seconds |-> WaitTime]
    /\ UNCHANGED <<now, config, api_state, budget_usage, rlOthers>>

\* RateLimiter.reset_budget()
ResetBudget ==
    /\ budget_usage' = [b \in RequestBudget |-> 0]
    /\ ret' = RetNone
    /\ UNCHANGED <<now, config, minute_requests, hour_requests, day_requests,
                   api_state, rlOthers>>

\* count / limit >= warning_threshold (0.80)
AtThreshold(count, limit) == count * 5 >= limit * 4

\* RateLimiter.check_thresholds(): which windows are warned about.
CheckThresholds ==
    /\ CleanupOldRequests
    /\ ret' = [op |-> "check_thresholds",
               val |-> {w \in {"minute", "hour", "day"} :
                   \/ w = "minute" /\ AtThreshold(Len(CleanMinuteAt(now)),
                                          config.requests_per_minute)
                   \/ w = "hour" /\ AtThreshold(Len(CleanHourAt(now)),
                                        config.requests_per_hour)
                   \/ w = "day" /\ AtThreshold(Len(CleanDayAt(now)),
                                       config.requests_per_day)}]
    /\ UNCHANGED <<now, config, api_state, budget_usage, rlOthers>>

\* Time passes (one clock unit).
Tick ==
    /\ now < MaxTime
    /\ now' = now + 1
    /\ ret' = RetNone
    /\ UNCHANGED <<rlVars, rlOthers>>

(***************************************************************************)
(* BackoffHandler.  Delays are in hundredths of a second, so that the      *)
(* jitter factor (a real in [0.8, 1.2]) is a whole number of percent;      *)
(* retry-after values and the clock are in seconds.                        *)
(***************************************************************************)
ErrorType ==
    {"rate_limited", "server_error", "client_error", "timeout", "connection",
     "unknown"}

Endpoints == {"new_posts", "hot_posts"}

\* random.uniform(jitter_min, jitter_max), in percent
JitterPercents == {80, 100, 120}

BackoffConfig(exponent, delay) ==
    [base_delay |-> 1, max_exponent |-> exponent, max_delay |-> delay,
     timeout_multiplier |-> 2]

\* BackoffConfig(): the defaults.
DefaultBackoffConfig == BackoffConfig(8, 300)

BackoffState0 ==
    [error_count |-> 0, last_error_at |-> NoneInt,
     last_error_type |-> NoneStr, retry_after |-> NoneInt,
     consecutive_successes |-> 0]

BackoffInit(cfgs) ==
    /\ backoff_config \in cfgs
    /\ endpoint_states = <<>>
    /\ since_error = [e \in Endpoints |-> 0]

Min(a, b) == IF a <= b THEN a ELSE b

\* _get_state: the endpoint's state, a fresh one if it has none yet.
GetState(endpoint) ==
    IF endpoint \in DOMAIN endpoint_states THEN endpoint_states[endpoint]
    ELSE BackoffState0

\* endpoint_states with endpoint's state set to st.
PutState(endpoint, st) ==
    [e \in DOMAIN endpoint_states \cup {endpoint} |->
        IF e = endpoint THEN st ELSE endpoint_states[e]]

\* Mutant: an error leaves the success streak running.
StateRecordErrorKeepsStreak(st, error_type, retry_after_seconds) ==
    [error_count |-> st.error_count + 1,
     last_error_at |-> now,
     last_error_type |-> error_type,
     consecutive_successes |-> st.consecutive_successes,
     retry_after |-> IF retry_after_seconds # NoneInt
                     THEN now + retry_after_seconds ELSE NoneInt]

\* BackoffState.record_error
StateRecordError(st, error_type, retry_after_seconds) ==
    [error_count |-> st.error_count + 1,
     last_error_at |-> now,
     last_error_type |-> error_type,
     consecutive_successes |-> 0,
     retry_after |-> IF retry_after_seconds # NoneInt
                     THEN now + retry_after_seconds ELSE NoneInt]

\* Mutant: the reset already happens at the second success.
StateRecordSuccessAtTwo(st) ==
    IF st.consecutive_successes + 1 >= 2
    THEN [st EXCEPT !.consecutive_successes = @ + 1, !.error_count = 0,
                    !.last_error_type = NoneStr, !.retry_after = NoneInt]
    ELSE [st EXCEPT !.consecutive_successes = @ + 1]

\* BackoffState.record_success
StateRecordSuccess(st) ==
    IF st.consecutive_successes + 1 >= 3
    THEN [st EXCEPT !.consecutive_successes = @ + 1, !.error_count = 0,
                    !.last_error_type = NoneStr, !.retry_after = NoneInt]
    ELSE [st EXCEPT !.consecutive_successes = @ + 1]

\* Mutant: the jitter is applied to an explicit retry-after too.
CalculateDelayJitteredRetryAfter(st, error_type, retry_after_seconds, jitter) ==
    IF error_type = "client_error" THEN 0
    ELSE LET delay ==
                 IF retry_after_seconds # NoneInt /\ retry_after_seconds > 0
                 THEN retry_after_seconds
                 ELSE IF error_type = "timeout"
                 THEN backoff_config.base_delay
                      * backoff_config.timeout_multiplier * st.error_count
                 ELSE backoff_config.base_delay
                      * 2 ^ Min(st.error_count, backoff_config.max_exponent)
         IN  Min(delay * jitter, backoff_config.max_delay * 100)

\* Mutant: an explicit retry-after is looked at before the error type.
CalculateDelayRetryAfterFirst(st, error_type, retry_after_seconds, jitter) ==
    IF retry_after_seconds # NoneInt /\ retry_after_seconds > 0
    THEN Min(retry_after_seconds, backoff_config.max_delay) * 100
    ELSE IF error_type = "client_error" THEN 0
    ELSE LET delay ==
                 IF error_type = "timeout"
                 THEN backoff_config.base_delay
                      * backoff_config.timeout_multiplier * st.error_count
                 ELSE backoff_config.base_delay
                      * 2 ^ Min(st.error_count, backoff_config.max_exponent)
         IN  Min(delay * jitter, backoff_config.max_delay * 100)

\* Mutant: the jittered delay is not capped at max_delay.
CalculateDelayUncapped(st, error_type, retry_after_seconds, jitter) ==
    IF error_type = "client_error" THEN 0
    ELSE IF retry_after_seconds # NoneInt /\ retry_after_seconds > 0
    THEN Min(retry_after_seconds, backoff_config.max_delay) * 100
    ELSE LET delay ==
                 IF error_type = "timeout"
                 THEN backoff_config.base_delay
                      * backoff_config.timeout_multiplier * st.error_count
                 ELSE backoff_config.base_delay
                      * 2 ^ Min(st.error_count, backoff_config.max_exponent)
         IN  delay * jitter

\* BackoffHandler.calculate_delay on state st, with jitter drawn as `jitter`.
CalculateDelay(st, error_type, retry_after_seconds, jitter) ==
    IF error_type = "client_error" THEN 0
    ELSE IF retry_after_seconds # NoneInt /\ retry_after_seconds > 0
    THEN Min(retry_after_seconds, backoff_config.max_delay) * 100
    ELSE LET delay ==
                 IF error_type = "timeout"
                 THEN backoff_config.base_delay
                      * backoff_config.timeout_multiplier * st.error_count
                 ELSE backoff_config.base_delay
                      * 2 ^ Min(st.error_count, backoff_config.max_exponent)
         IN  Min(delay * jitter, backoff_config.max_delay * 100)

\* Mutant: one error more is tolerated (> for >=).
ShouldRetryOffByOne(endpoint, error_type) ==
    IF error_type = "client_error" THEN FALSE
    ELSE IF GetState(endpoint).error_count > backoff_config.max_exponent
    THEN FALSE
    ELSE TRUE

\* The value should_retry(endpoint, error_type) returns.
ShouldRetry(endpoint, error_type) ==
    IF error_type = "client_error" THEN FALSE
    ELSE IF GetState(endpoint).error_count >= backoff_config.max_exponent
    THEN FALSE
    ELSE TRUE

\* BackoffHandler.calculate_delay(endpoint, error_type, retry_after_seconds)
DoCalculateDelay(endpoint, error_type, retry_after_seconds) ==
    \E jitter \in JitterPercents :
        /\ endpoint_states' = PutState(endpoint, GetState(endpoint))
        /\ ret' = [op |-> "calculate_delay", endpoint |-> endpoint,
                   error_type |-> error_type,
                   retry_after_seconds |-> retry_after_seconds,
                   val |-> CalculateDelay(GetState(endpoint), error_type,
                                          retry_after_seconds, jitter)]
        /\ UNCHANGED <<now, boOthers, backoff_config, since_error>>

\* BackoffHandler.record_error(endpoint, error_type, retry_after_seconds)
DoRecordError(endpoint, error_type, retry_after_seconds) ==
    \E jitter \in JitterPercents :
        LET st == StateRecordError(GetState(endpoint), error_type,
                                   retry_after_seconds)
        IN  /\ GetState(endpoint).error_count < MaxErrors
            /\ endpoint_states' = PutState(endpoint, st)
            /\ since_error' = [since_error EXCEPT ![endpoint] = 0]
            /\ ret' = [op |-> "record_error", endpoint |-> endpoint,
                       error_type |-> error_type,
                       retry_after_seconds |-> retry_after_seconds,
                       val |-> CalculateDelay(st, error_type,
                                              retry_after_seconds, jitter)]
            /\ UNCHANGED <<now, boOthers, backoff_config>>

\* BackoffHandler.record_success(endpoint)
DoRecordSuccess(endpoint) ==
    /\ GetState(endpoint).consecutive_successes < MaxSuccesses
    /\ endpoint_states' =
           PutState(endpoint, StateRecordSuccess(GetState(endpoint)))
    /\ since_error' = [since_error EXCEPT ![endpoint] = Min(@ + 1, 3)]
    /\ ret' = [op |-> "record_success", endpoint |-> endpoint]
    /\ UNCHANGED <<now, boOthers, backoff_config>>

\* BackoffHandler.should_retry(endpoint, error_type): a client error is
\* answered before the endpoint's state is looked up.
DoShouldRetry(endpoint, error_type) ==
    /\ endpoint_states' =
           IF error_type = "client_error" THEN endpoint_states
           ELSE PutState(endpoint, GetState(endpoint))
    /\ ret' = [op |-> "should_retry", endpoint |-> endpoint,
               error_type |-> error_type,
               val |-> ShouldRetry(endpoint, error_type)]
    /\ UNCHANGED <<now, boOthers, backoff_config, since_error>>

\* The value get_next_allowed_time(endpoint) returns, in hundredths of a
\* second (NoneInt: allowed now), with jitter drawn as `jitter`.
NextAllowedTime(endpoint, jitter) ==
    LET st == GetState(endpoint)
        delay == CalculateDelay(st,
                     IF st.last_error_type # NoneStr THEN st.last_error_type
                     ELSE "unknown", NoneInt, jitter)
        next_allowed == st.last_error_at * 100 + delay
    IN  IF st.retry_after # NoneInt /\ now < st.retry_after
        THEN st.retry_after * 100
        ELSE IF st.last_error_at = NoneInt THEN NoneInt
        ELSE IF now * 100 < next_allowed THEN next_allowed
        ELSE NoneInt

\* BackoffHandler.get_next_allowed_time(endpoint)
DoGetNextAllowedTime(endpoint) ==
    \E jitter \in JitterPercents :
        /\ endpoint_states' = PutState(endpoint, GetState(endpoint))
        /\ ret' = [op |-> "get_next_allowed_time", endpoint |-> endpoint,
                   val |-> NextAllowedTime(endpoint, jitter)]
        /\ UNCHANGED <<now, boOthers, backoff_config, since_error>>

\* BackoffHandler.reset_endpoint(endpoint)
ResetEndpoint(endpoint) ==
    /\ endpoint_states' =
           IF endpoint \in DOMAIN endpoint_states
           THEN PutState(endpoint, BackoffState0)
           ELSE endpoint_states
    /\ ret' = [op |-> "reset_endpoint", endpoint |-> endpoint]
    /\ UNCHANGED <<now, boOthers, backoff_config, since_error>>

\* BackoffHandler.reset_all()
ResetAll ==
    /\ endpoint_states' = <<>>
    /\ ret' = [op |-> "reset_all"]
    /\ UNCHANGED <<now, boOthers, backoff_config, since_error>>

\* Time passes for the backoff handler.
BackoffTick ==
    /\ now < BackoffMaxTime
    /\ now' = now + 1
    /\ ret' = RetNone
    /\ UNCHANGED <<boVars, boOthers>>

(***************************************************************************)
(* PollingScheduler and its ActivityTracker.  Intervals and times are in   *)
(* seconds.                                                                *)
(***************************************************************************)
EndpointType ==
    {"new_posts", "hot_posts", "top_posts", "rising_posts", "submolts",
     "comments", "agents"}

DEFAULT_INTERVALS ==
    [new_posts |-> [default |-> 300, minimum |-> 60, maximum |-> 1800],
     hot_posts |-> [default |-> 900, minimum |-> 300, maximum |-> 3600],
     top_posts |-> [default |-> 3600, minimum |-> 900, maximum |-> 21600],
     rising_posts |-> [default |-> 600, minimum |-> 120, maximum |-> 1800],
     submolts |-> [default |-> 21600, minimum |-> 3600, maximum |-> 86400]]

\* The endpoint types start() schedules a job for.
ScheduledEndpoints ==
    {"new_posts", "hot_posts", "top_posts", "rising_posts", "submolts"}

\* ActivityTracker.window_size
WindowSize == 3600

PollState0 ==
    [last_post_id |-> NoneStr, last_poll_at |-> NoneInt,
     next_poll_at |-> NoneInt, current_interval |-> NoneInt,
     error_count |-> 0, last_error |-> NoneStr, posts_fetched_last |-> 0,
     total_posts_fetched |-> 0]

NoScheduler == [present |-> FALSE, jobs |-> <<>>]

\* No stop() call is under way.
NoStopCall == [phase |-> "none", wait |-> TRUE, found |-> {}]

SchedulerInit ==
    /\ firings = [ep \in EndpointType |-> "none"]
    /\ stop_call = NoStopCall
    /\ poll_states = [ep \in EndpointType |-> PollState0]
    /\ samples = <<>>
    /\ scheduler = NoScheduler
    /\ poll_callback = FALSE
    /\ shutdown_event = FALSE
    /\ running = FALSE

Max(a, b) == IF a >= b THEN a ELSE b

RECURSIVE SumCounts(_)
\* sum(count for _, count in samples)
SumCounts(s) == IF s = <<>> THEN 0 ELSE Head(s)[2] + SumCounts(Tail(s))

\* _cleanup_old_samples at time t: the samples with ts > t - window_size.
CleanupOldSamples(s, t) == SelectSeq(s, LAMBDA x : x[1] > t - WindowSize)

\* Seconds between the first and the last sample.
SpanSeconds(s) == s[Len(s)][1] - s[1][1]

\* get_rate() > threshold, for a whole threshold of posts per minute, on
\* cleaned samples: total / (span / 60) > threshold.
RateAbove(s, threshold) ==
    IF s = <<>> THEN 0 > threshold
    ELSE IF SpanSeconds(s) <= 0 THEN SumCounts(s) > threshold
    ELSE SumCounts(s) * 60 > threshold * SpanSeconds(s)

\* get_rate() < threshold.
RateBelow(s, threshold) ==
    IF s = <<>> THEN 0 < threshold
    ELSE IF SpanSeconds(s) <= 0 THEN SumCounts(s) < threshold
    ELSE SumCounts(s) * 60 < threshold * SpanSeconds(s)

IsHighActivity(s) == RateAbove(s, 10)

IsLowActivity(s) == RateBelow(s, 1)

\* Mutant: the historical rate has no floor of 10.
IsSpikingNoFloor(s) ==
    /\ Len(s) >= 3
    /\ LET historical == SubSeq(s, 1, Len(s) - 1)
           recent_count == s[Len(s)][2]
       IN  /\ SpanSeconds(historical) > 0
           /\ recent_count * SpanSeconds(historical)
                  > SumCounts(historical) * 60 * 3

\* is_spiking on cleaned samples: the last count is above three times
\* max(historical rate, 10).
IsSpiking(s) ==
    /\ Len(s) >= 3
    /\ LET historical == SubSeq(s, 1, Len(s) - 1)
           recent_count == s[Len(s)][2]
       IN  /\ SpanSeconds(historical) > 0
           /\ recent_count > 10 * 3
           /\ recent_count * SpanSeconds(historical)
                  > SumCounts(historical) * 60 * 3

\* Mutant: the rate is looked at before the spike.
GetAdaptiveIntervalRateFirst(endpoint_type, s) ==
    IF endpoint_type \notin ScheduledEndpoints THEN 300
    ELSE LET cfg == DEFAULT_INTERVALS[endpoint_type]
         IN  IF IsHighActivity(s)
             THEN Max(cfg.default \div 2, cfg.minimum)
             ELSE IF IsLowActivity(s)
                  THEN Min(cfg.default * 2, cfg.maximum)
             ELSE IF IsSpiking(s) THEN cfg.minimum
             ELSE cfg.default

\* Mutant: high activity quarters the default, with no lower bound.
GetAdaptiveIntervalQuarter(endpoint_type, s) ==
    IF endpoint_type \notin ScheduledEndpoints THEN 300
    ELSE LET cfg == DEFAULT_INTERVALS[endpoint_type]
         IN  IF IsSpiking(s) THEN cfg.minimum
             ELSE IF IsHighActivity(s) THEN cfg.default \div 4
             ELSE IF IsLowActivity(s)
                  THEN Min(cfg.default * 2, cfg.maximum)
             ELSE cfg.default

\* _get_adaptive_interval, given the cleaned samples.
GetAdaptiveInterval(endpoint_type, s) ==
    IF endpoint_type \notin ScheduledEndpoints THEN 300
    ELSE LET cfg == DEFAULT_INTERVALS[endpoint_type]
         IN  IF IsSpiking(s) THEN cfg.minimum
             ELSE IF IsHighActivity(s)
                  THEN Max(cfg.default \div 2, cfg.minimum)
             ELSE IF IsLowActivity(s)
                  THEN Min(cfg.default * 2, cfg.maximum)
             ELSE cfg.default

\* The samples after _get_adaptive_interval: the activity queries clean
\* them, and an endpoint type without intervals returns before any query.
SamplesAfterQuery(endpoint_type) ==
    IF endpoint_type \in ScheduledEndpoints
    THEN CleanupOldSamples(samples, now) ELSE samples

\* PollState.record_error
PollStateRecordError(st, error) ==
    [st EXCEPT !.error_count = @ + 1, !.last_error = error]

\* Mutant: a poll leaves the error count and the last error alone.
PollStateRecordPollKeepsErrors(st, posts_fetched, last_post_id, interval) ==
    [st EXCEPT !.last_poll_at = now,
               !.posts_fetched_last = posts_fetched,
               !.total_posts_fetched = @ + posts_fetched,
               !.last_post_id =
                   IF last_post_id \notin {NoneStr, ""} THEN last_post_id
                   ELSE @,
               !.current_interval = IF interval # 0 THEN interval ELSE @,
               !.next_poll_at = IF interval # 0 THEN now + interval ELSE @]

\* PollState.record_poll
PollStateRecordPoll(st, posts_fetched, last_post_id, interval) ==
    [st EXCEPT !.last_poll_at = now,
               !.posts_fetched_last = posts_fetched,
               !.total_posts_fetched = @ + posts_fetched,
               !.error_count = 0,
               !.last_error = NoneStr,
               !.last_post_id =
                   IF last_post_id \notin {NoneStr, ""} THEN last_post_id
                   ELSE @,
               !.current_interval = IF interval # 0 THEN interval ELSE @,
               !.next_poll_at = IF interval # 0 THEN now + interval ELSE @]

\* Mutant: a job for every endpoint type, at five minutes for those with
\* no configured interval.
StartJobsForAll(intervals) ==
    [ep \in EndpointType |->
        IF ep \in DOMAIN intervals THEN intervals[ep].default ELSE 300]

\* The jobs start() adds: one for each of the five endpoint types of its
\* list, at the default interval.
StartJobs(intervals) ==
    [ep \in ScheduledEndpoints |-> intervals[ep].default]

\* start(poll_callback)
Start ==
    /\ ~running
    /\ poll_callback' = TRUE
    /\ shutdown_event' = FALSE
    /\ scheduler' = [present |-> TRUE, jobs |-> StartJobs(DEFAULT_INTERVALS)]
    /\ running' = TRUE
    /\ ret' = RetNone
    /\ UNCHANGED <<now, poll_states, samples, schedOthers>>

\* stop(), also what _handle_signal does
Stop ==
    /\ running
    /\ shutdown_event' = TRUE
    /\ scheduler' = NoScheduler
    /\ running' = FALSE
    /\ ret' = RetNone
    /\ UNCHANGED <<now, poll_states, samples, poll_callback, schedOthers>>

\* poll_states and scheduler after _update_job_interval(endpoint_type),
\* starting from the poll states ps.
UpdateJobInterval(endpoint_type, ps) ==
    IF ~scheduler.present
    THEN /\ poll_states' = ps
         /\ UNCHANGED <<samples, scheduler>>
    ELSE LET s == SamplesAfterQuery(endpoint_type)
             new_interval == GetAdaptiveInterval(endpoint_type, s)
         IN  /\ samples' = s
             /\ scheduler' =
                    IF endpoint_type \in DOMAIN scheduler.jobs
                    THEN [scheduler EXCEPT
                              !.jobs[endpoint_type] = new_interval]
                    ELSE scheduler
             /\ poll_states' =
                    [ps EXCEPT
                         ![endpoint_type].current_interval = new_interval,
                         ![endpoint_type].next_poll_at = now + new_interval]

\* Mutant: the except clause catches nothing.
PropagatesUncaught(raises) == raises

\* try: self.poll_callback(endpoint_type) / except Exception: whether what
\* the callback raises leaves the try statement.  `raises` is that the
\* callback raises an Exception (any subclass); the clause catches it.
Propagates(raises) == raises /\ FALSE

\* The job _create_poll_job(endpoint_type) returns, run once: by the
\* scheduler's timer, or late, by a firing that was already under way when
\* the scheduler shut down.  `raises` is whether the callback raises.  An
\* exception that left the try statement would end the job there, before
\* record_error and before _update_job_interval.
Job(endpoint_type, raises) ==
    /\ poll_callback
    /\ raises => poll_states[endpoint_type].error_count < MaxPollErrors
    /\ IF shutdown_event
       THEN /\ ret' = [op |-> "job", endpoint |-> endpoint_type,
                       invoked |-> FALSE, raised |-> FALSE,
                       propagated |-> FALSE]
            /\ UNCHANGED <<poll_states, samples, scheduler>>
       ELSE /\ ret' = [op |-> "job", endpoint |-> endpoint_type,
                       invoked |-> TRUE, raised |-> raises,
                       propagated |-> Propagates(raises)]
            /\ IF Propagates(raises)
               THEN UNCHANGED <<poll_states, samples, scheduler>>
               ELSE UpdateJobInterval(endpoint_type,
                        IF raises
                        THEN [poll_states EXCEPT ![endpoint_type] =
                                  PollStateRecordError(@, "error")]
                        ELSE poll_states)
    /\ UNCHANGED <<now, poll_callback, shutdown_event, running,
                   schedOthers>>

\* What record_poll_result(endpoint_type, posts_fetched, last_post_id)
\* does to the scheduler: the interval is computed before the new sample is
\* recorded.
RecordPollResultUpdate(endpoint_type, posts_fetched, last_post_id) ==
    /\ Len(samples) < MaxSamples
    /\ poll_states[endpoint_type].total_posts_fetched + posts_fetched
           <= MaxPostsFetched
    /\ LET s == SamplesAfterQuery(endpoint_type)
           interval == GetAdaptiveInterval(endpoint_type, s)
       IN  /\ poll_states' =
                  [poll_states EXCEPT ![endpoint_type] =
                       PollStateRecordPoll(@, posts_fetched, last_post_id,
                                           interval)]
           /\ samples' = CleanupOldSamples(
                             Append(s, <<now, posts_fetched>>), now)
    /\ UNCHANGED <<now, scheduler, poll_callback, shutdown_event, running,
                   schedOthers>>

\* record_poll_result(endpoint_type, posts_fetched, last_post_id)
RecordPollResult(endpoint_type, posts_fetched, last_post_id) ==
    /\ RecordPollResultUpdate(endpoint_type, posts_fetched, last_post_id)
    /\ ret' = RetNone

\* record_poll_result(endpoint_type, posts_fetched, last_post_id), with
\* the poll states and the samples it found
DoRecordPollResult(endpoint_type, posts_fetched, last_post_id) ==
    /\ RecordPollResultUpdate(endpoint_type, posts_fetched, last_post_id)
    /\ ret' = [op |-> "record_poll_result", endpoint |-> endpoint_type,
               posts_fetched |-> posts_fetched,
               last_post_id |-> last_post_id,
               before |-> poll_states, samples_before |-> samples]

\* record_poll_error(endpoint_type, error)
RecordPollError(endpoint_type, error) ==
    /\ poll_states[endpoint_type].error_count < MaxPollErrors
    /\ poll_states' = [poll_states EXCEPT ![endpoint_type] =
                           PollStateRecordError(@, error)]
    /\ ret' = RetNone
    /\ UNCHANGED <<now, samples, scheduler, poll_callback, shutdown_event,
                   running, schedOthers>>

\* The scheduler's timer fires the job start() added for endpoint_type.
TimerFires(endpoint_type, raises) ==
    /\ scheduler.present
    /\ endpoint_type \in DOMAIN scheduler.jobs
    /\ Job(endpoint_type, raises)

\* Mutant: the job does not look at shutdown_event.
JobReturnsAtOnceNever(event_set) == FALSE

\* if self.shutdown_event.is_set(): return
JobReturnsAtOnce(event_set) == event_set

\* The endpoint types with a job inside its body.
InFlight == {ep \in EndpointType : firings[ep] # "none"}

\* The timer of endpoint_type fires and its job begins: it tests
\* shutdown_event.  One instance of a job runs at a time (the scheduler's
\* max_instances default).
FiringBegins(endpoint_type) ==
    /\ scheduler.present
    /\ endpoint_type \in DOMAIN scheduler.jobs
    /\ firings[endpoint_type] = "none"
    /\ firings' =
           IF JobReturnsAtOnce(shutdown_event) THEN firings
           ELSE [firings EXCEPT ![endpoint_type] = "started"]
    /\ ret' = [op |-> "firing_begins", endpoint |-> endpoint_type,
               signalled |-> shutdown_event,
               returned |-> JobReturnsAtOnce(shutdown_event)]
    /\ UNCHANGED <<now, stop_call, schedVars, rlVars, boVars, threadVars,
                   ddVars, robVars>>

\* The job of endpoint_type, past the test, calls the poll callback.
FiringPolls(endpoint_type) ==
    /\ firings[endpoint_type] = "started"
    /\ firings' = [firings EXCEPT ![endpoint_type] =
                       IF poll_callback THEN "polling" ELSE "updating"]
    /\ ret' = [op |-> "firing_polls", endpoint |-> endpoint_type,
               invoked |-> poll_callback, signalled |-> shutdown_event]
    /\ UNCHANGED <<now, stop_call, schedVars, rlVars, boVars, threadVars,
                   ddVars, robVars>>

\* The poll callback returns or raises, and the job ends with
\* _update_job_interval.
FiringEnds(endpoint_type, raises) ==
    /\ firings[endpoint_type] \in {"polling", "updating"}
    /\ raises => /\ firings[endpoint_type] = "polling"
                 /\ poll_states[endpoint_type].error_count < MaxPollErrors
    /\ firings' = [firings EXCEPT ![endpoint_type] = "none"]
    /\ UpdateJobInterval(endpoint_type,
           IF raises
           THEN [poll_states EXCEPT ![endpoint_type] =
                     PollStateRecordError(@, "error")]
           ELSE poll_states)
    /\ ret' = [op |-> "firing_ends", endpoint |-> endpoint_type]
    /\ UNCHANGED <<now, stop_call, poll_callback, shutdown_event, running,
                   rlVars, boVars, threadVars, ddVars, robVars>>

\* stop(wait) up to the call of scheduler.shutdown(wait=wait): it sets
\* shutdown_event.
StopSignals(wait) ==
    /\ running
    /\ stop_call.phase = "none"
    /\ shutdown_event' = TRUE
    /\ stop_call' = [phase |-> "shutdown", wait |-> wait, found |-> InFlight]
    /\ ret' = RetNone
    /\ UNCHANGED <<now, firings, poll_states, samples, scheduler,
                   poll_callback, running, rlVars, boVars, threadVars, ddVars,
                   robVars>>

\* Mutant: shutdown never waits.
ShutdownReturnsNoWait(wait, in_flight) == TRUE

\* BackgroundScheduler.shutdown(wait) returns: with wait, only when no job
\* is running.
ShutdownReturns(wait, in_flight) == wait => in_flight = {}

\* scheduler.shutdown(wait=wait) returns and stop() ends.
StopReturns ==
    /\ stop_call.phase = "shutdown"
    /\ ShutdownReturns(stop_call.wait, InFlight)
    /\ scheduler' = NoScheduler
    /\ running' = FALSE
    /\ stop_call' = [stop_call EXCEPT !.phase = "none"]
    /\ ret' = [op |-> "stop", wait |-> stop_call.wait,
               found |-> stop_call.found, in_flight |-> InFlight]
    /\ UNCHANGED <<now, firings, poll_states, samples, poll_callback,
                   shutdown_event, rlVars, boVars, threadVars, ddVars,
                   robVars>>

\* start(poll_callback), called when the jobs of the scheduler before have
\* ended.
StartAfresh ==
    /\ stop_call.phase = "none"
    /\ InFlight = {}
    /\ Start

\* trigger_poll(endpoint_type)
TriggerPoll(endpoint_type, raises) ==
    /\ raises => poll_states[endpoint_type].error_count < MaxPollErrors
    /\ ret' = [op |-> "trigger_poll", endpoint |-> endpoint_type,
               invoked |-> poll_callback,
               raised |-> poll_callback /\ raises,
               propagated |-> poll_callback /\ Propagates(raises)]
    /\ poll_states' =
           IF poll_callback /\ raises /\ ~Propagates(raises)
           THEN [poll_states EXCEPT ![endpoint_type] =
                     PollStateRecordError(@, "error")]
           ELSE poll_states
    /\ UNCHANGED <<now, samples, scheduler, poll_callback, shutdown_event,
                   running, schedOthers>>

\* The clock moves on by a minute or by an hour.
Advance(seconds) ==
    /\ \/ seconds = 60 /\ now % 3600 < 60 * MaxShortSteps
       \/ seconds = 3600 /\ now < 3600 * MaxLongSteps
    /\ now' = now + seconds
    /\ ret' = RetNone
    /\ UNCHANGED <<rlVars, boVars, schedVars, threadVars, ddVars, robVars,
                   shutVars>>

(* Persistence of the poll states ------------------------------------------ *)

\* for endpoint_type, state in self.poll_states.items(): the order of the
\* members of EndpointType
EndpointOrder ==
    <<"new_posts", "hot_posts", "top_posts", "rising_posts", "submolts",
      "comments", "agents">>

\* A persisted last_poll_at: None, the text of a time, a text that is no
\* time, or a number.
NoTimestamp == [kind |-> "none", hour |-> 0, minute |-> 0, second |-> 0]

MalformedTimestamp ==
    [kind |-> "malformed", hour |-> 0, minute |-> 0, second |-> 0]

NumberTimestamp == [kind |-> "number", hour |-> 0, minute |-> 0, second |-> 0]

\* datetime.isoformat(): the time written as hours, minutes and seconds
IsoFormat(t) ==
    [kind |-> "text", hour |-> t \div 3600, minute |-> (t % 3600) \div 60,
     second |-> t % 60]

\* Mutant: the minutes are not read.
FromIsoFormatNoMinutes(text) == text.hour * 3600 + text.second

\* datetime.fromisoformat(text), for the text of a time
FromIsoFormat(text) == text.hour * 3600 + text.minute * 60 + text.second

\* One entry of the persisted state: a dict with the four values, or a
\* value of another shape.
PersistedState(last_post_id, last_poll_at, error_count, total) ==
    [shape |-> "dict", last_post_id |-> last_post_id,
     last_poll_at |-> last_poll_at, error_count |-> error_count,
     total_posts_fetched |-> total]

\* get_state_for_persistence(): the entries of the dict, in its order
GetStateForPersistence(ps) ==
    [i \in 1..Len(EndpointOrder) |->
        [name |-> EndpointOrder[i],
         data |-> PersistedState(
                      ps[EndpointOrder[i]].last_post_id,
                      IF ps[EndpointOrder[i]].last_poll_at = NoneInt
                      THEN NoTimestamp
                      ELSE IsoFormat(ps[EndpointOrder[i]].last_poll_at),
                      ps[EndpointOrder[i]].error_count,
                      ps[EndpointOrder[i]].total_posts_fetched)]]

RECURSIVE RestoreLoop(_, _)
\* The loop of restore_state over the entries of state_data, from the poll
\* states ps: the poll states it leaves and the exception that ended it,
\* if any.  ValueError and KeyError are caught and the loop goes on;
\* AttributeError (data.get on a value that is no dict) and TypeError
\* (fromisoformat of a value that is no text) are not.
RestoreLoop(entries, ps) ==
    IF entries = <<>> THEN [poll_states |-> ps, raised |-> NoneStr]
    ELSE LET name == Head(entries).name
             data == Head(entries).data
         IN  IF name \notin EndpointType
             THEN RestoreLoop(Tail(entries), ps)
             ELSE IF data.shape # "dict"
             THEN [poll_states |-> ps, raised |-> "AttributeError"]
             ELSE LET cursor ==
                          [ps EXCEPT ![name].last_post_id = data.last_post_id]
                      timed ==
                          IF data.last_poll_at.kind = "text"
                          THEN [cursor EXCEPT ![name].last_poll_at =
                                   FromIsoFormat(data.last_poll_at)]
                          ELSE cursor
                      counted ==
                          [timed EXCEPT
                               ![name].error_count = data.error_count,
                               ![name].total_posts_fetched =
                                   data.total_posts_fetched]
                  IN  IF data.last_poll_at.kind = "malformed"
                      THEN RestoreLoop(Tail(entries), cursor)
                      ELSE IF data.last_poll_at.kind = "number"
                      THEN [poll_states |-> cursor, raised |-> "TypeError"]
                      ELSE RestoreLoop(Tail(entries), counted)

\* restore_state(state_data)
RestoreState(state_data) ==
    /\ poll_states' = RestoreLoop(state_data, poll_states).poll_states
    /\ ret' = [op |-> "restore_state", state_data |-> state_data,
               before |-> poll_states,
               raised |-> RestoreLoop(state_data, poll_states).raised]
    /\ UNCHANGED <<now, samples, scheduler, poll_callback, shutdown_event,
                   running, schedOthers>>

\* The process ends and a new one starts: get_state_for_persistence() is
\* saved, and restore_state is given it on a new PollingScheduler().
Restart ==
    /\ poll_states' =
           RestoreLoop(GetStateForPersistence(poll_states),
                       [ep \in EndpointType |-> PollState0]).poll_states
    /\ samples' = <<>>
    /\ scheduler' = NoScheduler
    /\ poll_callback' = FALSE
    /\ shutdown_event' = FALSE
    /\ running' = FALSE
    /\ ret' = [op |-> "restart", before |-> poll_states]
    /\ UNCHANGED <<now, schedOthers>>

(* ActivityTracker on its own --------------------------------------------- *)

trackerOthers ==
    <<poll_states, scheduler, poll_callback, shutdown_event, running,
      schedOthers>>

\* activity_tracker.record_activity(count)
RecordActivity(count) ==
    /\ Len(samples) < MaxSamples
    /\ samples' = CleanupOldSamples(Append(samples, <<now, count>>), now)
    /\ ret' = RetNone
    /\ UNCHANGED <<now, trackerOthers>>

\* activity_tracker.is_spiking()
DoIsSpiking ==
    /\ samples' = CleanupOldSamples(samples, now)
    /\ ret' = [op |-> "is_spiking",
               val |-> IsSpiking(CleanupOldSamples(samples, now))]
    /\ UNCHANGED <<now, trackerOthers>>

\* _get_adaptive_interval(endpoint_type)
DoGetAdaptiveInterval(endpoint_type) ==
    /\ samples' = SamplesAfterQuery(endpoint_type)
    /\ ret' = [op |-> "get_adaptive_interval", endpoint |-> endpoint_type,
               val |-> GetAdaptiveInterval(endpoint_type,
                                           SamplesAfterQuery(endpoint_type))]
    /\ UNCHANGED <<now, trackerOthers>>

\* The clock moves on by two minutes, or by the size of the window.
ActivityAdvance(seconds) ==
    /\ \/ seconds = 120 /\ now % WindowSize < 120 * MaxActivitySteps
       \/ seconds = WindowSize /\ now < WindowSize
    /\ now' = now + seconds
    /\ ret' = RetNone
    /\ UNCHANGED <<rlVars, boVars, schedVars, threadVars, ddVars, robVars,
                   shutVars>>

(***************************************************************************)
(* Threads: several threads calling into one RateLimiter, one              *)
(* BackoffHandler and one DeduplicationTracker.  A call is a sequence of   *)
(* steps, one per access to the shared object, and the steps of different  *)
(* threads interleave.  record_request runs under RateLimiter._lock;       *)
(* BackoffHandler and DeduplicationTracker have no lock.  The objects the  *)
(* two dictionaries hold are kept in `objects` and referred to by their    *)
(* position, so that a thread keeps the object it fetched when another     *)
(* thread stores a different one under the same key.                       *)
(***************************************************************************)
Threads == 1..NumThreads

PostIds == {"p1", "p2"}
ContentHashes == {"h1"}

ThreadIdle(calls) ==
    [pc |-> "idle", key |-> NoneStr, arg |-> NoneStr,
     retry_after |-> NoneInt, time |-> NoneInt, tmp |-> NoneInt, ref |-> 0,
     calls |-> calls]

ThreadsInit ==
    /\ threads = [t \in Threads |-> ThreadIdle(0)]
    /\ lock = 0
    /\ completed = [record_request |-> 0,
                    mark_seen |-> [p \in PostIds |-> 0],
                    record_error |-> [e \in Endpoints |-> 0]]
    /\ objects = <<>>
    /\ state_of = [e \in Endpoints |-> 0]
    /\ record_of = [p \in PostIds |-> 0]
    /\ hash_of = [h \in ContentHashes |-> NoneStr]

AllIdle == \A t \in Threads : threads[t].pc = "idle"

\* The call returns.
Return(t) == [threads EXCEPT ![t] = ThreadIdle(threads[t].calls + 1)]

\* A thread begins a call when it has calls left to make.
CanCall(t) == threads[t].pc = "idle" /\ threads[t].calls < CallsPerThread

\* What a step of a call into the rate limiter leaves alone.
lockedOthers ==
    <<now, ret, boVars, schedVars, heapVars, ddVars, robVars, shutVars>>

\* What a step of a call into the backoff handler or the deduplication
\* tracker leaves alone.
unlockedOthers ==
    <<now, rlVars, boVars, schedVars, lock, ddVars, robVars, shutVars>>

(* RateLimiter.record_request, step by step ------------------------------ *)

\* _lock is an RLock: free, or held by the thread asking.
LockAlwaysAvailable(t) == TRUE
LockAvailable(t) == lock \in {0, t}

RecordRequestCall(t, budget) ==
    /\ CanCall(t)
    /\ threads' = [threads EXCEPT ![t].pc = "acquire", ![t].key = budget]
    /\ UNCHANGED <<rlVars, lock, completed, lockedOthers>>

\* with self._lock:
RecordRequestAcquire(t) ==
    /\ threads[t].pc = "acquire"
    /\ LockAvailable(t)
    /\ lock' = t
    /\ threads' = [threads EXCEPT ![t].pc = "time"]
    /\ UNCHANGED <<rlVars, completed, lockedOthers>>

\* now = time.time()
RecordRequestTime(t) ==
    /\ threads[t].pc = "time"
    /\ threads' = [threads EXCEPT ![t].pc = "minute", ![t].time = now]
    /\ UNCHANGED <<rlVars, lock, completed, lockedOthers>>

\* self.minute_requests.append(now)
RecordRequestMinute(t) ==
    /\ threads[t].pc = "minute"
    /\ minute_requests' = Append(minute_requests, threads[t].time)
    /\ threads' = [threads EXCEPT ![t].pc = "hour"]
    /\ UNCHANGED <<config, hour_requests, day_requests, api_state,
                   budget_usage, lock, completed, lockedOthers>>

\* self.hour_requests.append(now)
RecordRequestHour(t) ==
    /\ threads[t].pc = "hour"
    /\ hour_requests' = Append(hour_requests, threads[t].time)
    /\ threads' = [threads EXCEPT ![t].pc = "day"]
    /\ UNCHANGED <<config, minute_requests, day_requests, api_state,
                   budget_usage, lock, completed, lockedOthers>>

\* self.day_requests.append(now)
RecordRequestDay(t) ==
    /\ threads[t].pc = "day"
    /\ day_requests' = Append(day_requests, threads[t].time)
    /\ threads' = [threads EXCEPT ![t].pc = "get_usage"]
    /\ UNCHANGED <<config, minute_requests, hour_requests, api_state,
                   budget_usage, lock, completed, lockedOthers>>

\* self.budget_usage.get(budget, 0)
RecordRequestGetUsage(t) ==
    /\ threads[t].pc = "get_usage"
    /\ threads' = [threads EXCEPT ![t].pc = "set_usage",
                                  ![t].tmp = budget_usage[threads[t].key]]
    /\ UNCHANGED <<rlVars, lock, completed, lockedOthers>>

\* self.budget_usage[budget] = ... + 1
RecordRequestSetUsage(t) ==
    /\ threads[t].pc = "set_usage"
    /\ budget_usage' =
           [budget_usage EXCEPT ![threads[t].key] = threads[t].tmp + 1]
    /\ threads' = [threads EXCEPT ![t].pc = "release"]
    /\ UNCHANGED <<config, minute_requests, hour_requests, day_requests,
                   api_state, lock, completed, lockedOthers>>

\* Leaving the with block releases the lock; the call returns.
RecordRequestRelease(t) ==
    /\ threads[t].pc = "release"
    /\ lock' = IF lock = t THEN 0 ELSE lock
    /\ threads' = Return(t)
    /\ completed' = [completed EXCEPT !.record_request = @ + 1]
    /\ UNCHANGED <<rlVars, lockedOthers>>

(* can_request, then record_request if it allowed ------------------------- *)

\* A thread calls can_request(budget): the whole call runs under _lock.
\* The thread goes on to record_request only if the answer is True.
GuardedCanRequest(t, budget) ==
    /\ CanCall(t)
    /\ lock = 0
    /\ CleanupOldRequests
    /\ threads' =
           IF CanRequest(budget)
           THEN [threads EXCEPT ![t].pc = "allowed", ![t].key = budget]
           ELSE Return(t)
    /\ ret' = [op |-> "can_request", budget |-> budget,
               val |-> CanRequest(budget)]
    /\ UNCHANGED <<now, config, api_state, budget_usage, lock, completed,
                   heapVars, boVars, schedVars, ddVars, robVars, shutVars>>

\* The thread that was allowed calls record_request(budget), or
\* record_request() when it asked about no budget: the whole call runs
\* under _lock.
GuardedRecordRequest(t) ==
    /\ threads[t].pc = "allowed"
    /\ lock = 0
    /\ minute_requests' = Append(minute_requests, now)
    /\ hour_requests' = Append(hour_requests, now)
    /\ day_requests' = Append(day_requests, now)
    /\ budget_usage' =
           [budget_usage EXCEPT
                ![IF threads[t].key = NoneStr THEN "reserve"
                  ELSE threads[t].key] = @ + 1]
    /\ threads' = Return(t)
    /\ completed' = [completed EXCEPT !.record_request = @ + 1]
    /\ ret' = [op |-> "record_request", budget |-> threads[t].key]
    /\ UNCHANGED <<now, config, api_state, lock, heapVars, boVars, schedVars,
                   ddVars, robVars, shutVars>>

(* DeduplicationTracker.mark_seen, step by step -------------------------- *)

SeenPost(post_id, content_hash, t) ==
    [post_id |-> post_id, content_hash |-> content_hash,
     first_seen_at |-> t, last_seen_at |-> t, seen_count |-> 1]

\* now = datetime.now(UTC)
MarkSeenCall(t, post_id, content_hash) ==
    /\ CanCall(t)
    /\ threads' = [threads EXCEPT ![t].pc = "seen_check",
                                  ![t].key = post_id,
                                  ![t].arg = content_hash,
                                  ![t].time = now]
    /\ UNCHANGED <<ret, completed, heapVars, unlockedOthers>>

\* if post_id in self.by_id:
MarkSeenCheck(t) ==
    /\ threads[t].pc = "seen_check"
    /\ threads' = [threads EXCEPT ![t].pc =
           IF record_of[threads[t].key] # 0 THEN "seen_fetch"
           ELSE "seen_store_id"]
    /\ UNCHANGED <<ret, completed, heapVars, unlockedOthers>>

\* record = self.by_id[post_id]
MarkSeenFetch(t) ==
    /\ threads[t].pc = "seen_fetch"
    /\ threads' = [threads EXCEPT ![t].pc = "seen_last",
                                  ![t].ref = record_of[threads[t].key]]
    /\ UNCHANGED <<ret, completed, heapVars, unlockedOthers>>

\* record.last_seen_at = now
MarkSeenLastSeen(t) ==
    /\ threads[t].pc = "seen_last"
    /\ objects' = [objects EXCEPT
                       ![threads[t].ref].last_seen_at = threads[t].time]
    /\ threads' = [threads EXCEPT ![t].pc = "seen_get_count"]
    /\ UNCHANGED <<ret, completed, state_of, record_of, hash_of,
                   unlockedOthers>>

\* record.seen_count += 1: the read
MarkSeenGetCount(t) ==
    /\ threads[t].pc = "seen_get_count"
    /\ threads' = [threads EXCEPT
                       ![t].pc = "seen_set_count",
                       ![t].tmp = objects[threads[t].ref].seen_count]
    /\ UNCHANGED <<ret, completed, heapVars, unlockedOthers>>

\* record.seen_count += 1: the write; return record
MarkSeenSetCount(t) ==
    /\ threads[t].pc = "seen_set_count"
    /\ objects' = [objects EXCEPT
                       ![threads[t].ref].seen_count = threads[t].tmp + 1]
    /\ threads' = Return(t)
    /\ completed' = [completed EXCEPT !.mark_seen[threads[t].key] = @ + 1]
    /\ ret' = [op |-> "mark_seen", val |-> threads[t].ref]
    /\ UNCHANGED <<state_of, record_of, hash_of, unlockedOthers>>

\* record = SeenPost(...); self.by_id[post_id] = record
MarkSeenStoreId(t) ==
    /\ threads[t].pc = "seen_store_id"
    /\ objects' = Append(objects, SeenPost(threads[t].key, threads[t].arg,
                                           threads[t].time))
    /\ record_of' = [record_of EXCEPT ![threads[t].key] = Len(objects) + 1]
    /\ threads' = [threads EXCEPT ![t].pc = "seen_store_hash",
                                  ![t].ref = Len(objects) + 1]
    /\ UNCHANGED <<ret, completed, state_of, hash_of, unlockedOthers>>

\* self.by_hash[content_hash] = post_id; return record
MarkSeenStoreHash(t) ==
    /\ threads[t].pc = "seen_store_hash"
    /\ hash_of' = [hash_of EXCEPT ![threads[t].arg] = threads[t].key]
    /\ threads' = Return(t)
    /\ completed' = [completed EXCEPT !.mark_seen[threads[t].key] = @ + 1]
    /\ ret' = [op |-> "mark_seen", val |-> threads[t].ref]
    /\ UNCHANGED <<objects, state_of, record_of, unlockedOthers>>

(* BackoffHandler.record_error, step by step ----------------------------- *)

RecordErrorCall(t, endpoint, error_type, retry_after_seconds) ==
    /\ CanCall(t)
    /\ threads' = [threads EXCEPT ![t].pc = "state_check",
                                  ![t].key = endpoint,
                                  ![t].arg = error_type,
                                  ![t].retry_after = retry_after_seconds]
    /\ UNCHANGED <<ret, completed, heapVars, unlockedOthers>>

\* _get_state: if endpoint not in self.endpoint_states:
GetStateCheck(t) ==
    /\ threads[t].pc = "state_check"
    /\ threads' = [threads EXCEPT ![t].pc =
           IF state_of[threads[t].key] = 0 THEN "state_create"
           ELSE "state_fetch"]
    /\ UNCHANGED <<ret, completed, heapVars, unlockedOthers>>

\* _get_state: self.endpoint_states[endpoint] = BackoffState()
GetStateCreate(t) ==
    /\ threads[t].pc = "state_create"
    /\ objects' = Append(objects, BackoffState0)
    /\ state_of' = [state_of EXCEPT ![threads[t].key] = Len(objects) + 1]
    /\ threads' = [threads EXCEPT ![t].pc = "state_fetch"]
    /\ UNCHANGED <<ret, completed, record_of, hash_of, unlockedOthers>>

\* _get_state: return self.endpoint_states[endpoint]
GetStateFetch(t) ==
    /\ threads[t].pc = "state_fetch"
    /\ threads' = [threads EXCEPT ![t].pc = "error_get_count",
                                  ![t].ref = state_of[threads[t].key]]
    /\ UNCHANGED <<ret, completed, heapVars, unlockedOthers>>

\* BackoffState.record_error: self.error_count += 1, the read
RecordErrorGetCount(t) ==
    /\ threads[t].pc = "error_get_count"
    /\ threads' = [threads EXCEPT
                       ![t].pc = "error_set_count",
                       ![t].tmp = objects[threads[t].ref].error_count]
    /\ UNCHANGED <<ret, completed, heapVars, unlockedOthers>>

\* BackoffState.record_error: self.error_count += 1, the write
RecordErrorSetCount(t) ==
    /\ threads[t].pc = "error_set_count"
    /\ objects' = [objects EXCEPT
                       ![threads[t].ref].error_count = threads[t].tmp + 1]
    /\ threads' = [threads EXCEPT ![t].pc = "error_at"]
    /\ UNCHANGED <<ret, completed, state_of, record_of, hash_of,
                   unlockedOthers>>

\* BackoffState.record_error: self.last_error_at = datetime.now(UTC)
RecordErrorAt(t) ==
    /\ threads[t].pc = "error_at"
    /\ objects' = [objects EXCEPT ![threads[t].ref].last_error_at = now]
    /\ threads' = [threads EXCEPT ![t].pc = "error_type"]
    /\ UNCHANGED <<ret, completed, state_of, record_of, hash_of,
                   unlockedOthers>>

\* BackoffState.record_error: self.last_error_type = error_type
RecordErrorType(t) ==
    /\ threads[t].pc = "error_type"
    /\ objects' = [objects EXCEPT
                       ![threads[t].ref].last_error_type = threads[t].arg]
    /\ threads' = [threads EXCEPT ![t].pc = "error_streak"]
    /\ UNCHANGED <<ret, completed, state_of, record_of, hash_of,
                   unlockedOthers>>

\* BackoffState.record_error: self.consecutive_successes = 0
RecordErrorStreak(t) ==
    /\ threads[t].pc = "error_streak"
    /\ objects' = [objects EXCEPT
                       ![threads[t].ref].consecutive_successes = 0]
    /\ threads' = [threads EXCEPT ![t].pc = "error_retry"]
    /\ UNCHANGED <<ret, completed, state_of, record_of, hash_of,
                   unlockedOthers>>

\* BackoffState.record_error: self.retry_after = now + seconds, or None
RecordErrorRetryAfter(t) ==
    /\ threads[t].pc = "error_retry"
    /\ objects' = [objects EXCEPT ![threads[t].ref].retry_after =
           IF threads[t].retry_after # NoneInt
           THEN now + threads[t].retry_after ELSE NoneInt]
    /\ threads' = [threads EXCEPT ![t].pc = "error_delay"]
    /\ UNCHANGED <<ret, completed, state_of, record_of, hash_of,
                   unlockedOthers>>

\* delay = self.calculate_delay(endpoint, error_type, retry_after_seconds);
\* return delay.  The state exists by now, so _get_state only reads it.
RecordErrorDelay(t) ==
    /\ threads[t].pc = "error_delay"
    /\ \E jitter \in JitterPercents :
           ret' = [op |-> "record_error",
                   val |-> CalculateDelay(objects[state_of[threads[t].key]],
                                          threads[t].arg,
                                          threads[t].retry_after, jitter)]
    /\ threads' = Return(t)
    /\ completed' =
           [completed EXCEPT !.record_error[threads[t].key] = @ + 1]
    /\ UNCHANGED <<heapVars, unlockedOthers>>

(***************************************************************************)
(* DeduplicationTracker and DeduplicationFilter.  A tracker is the pair of *)
(* its two dictionaries; a dictionary is a function on the keys it holds.  *)
(***************************************************************************)
\* d[key] = value
DictPut(d, key, value) ==
    [k \in DOMAIN d \cup {key} |-> IF k = key THEN value ELSE d[k]]

\* d without the keys in `keys`: pop(key, None) for each of them
DictRemove(d, keys) == [k \in DOMAIN d \ keys |-> d[k]]

\* DeduplicationTracker(): a time-to-live of 90 days, in seconds.
DefaultTtl == 90 * 86400

DedupInit(ttls) ==
    /\ ttl \in ttls
    /\ by_id = <<>>
    /\ by_hash = <<>>
    /\ marked = <<>>
    /\ returned = {}

Tracker == [by_id |-> by_id, by_hash |-> by_hash]

\* calculate_content_hash: SHA-256 of "{post_id}:{agent_id}:{title}:{submolt}".
\* The digest is written as the text it is the digest of: equal texts have
\* equal digests and different texts have different ones.
CalculateContentHash(post_id, agent_id, title, submolt) ==
    "sha256(" \o post_id \o ":" \o agent_id \o ":" \o title \o ":"
        \o submolt \o ")"

\* A string Python treats as true: neither None nor empty.
Truthy(str) == str \notin {NoneStr, ""}

\* Mutant: nothing is a duplicate.
TrackerIsDuplicateNever(tr, post_id, content_hash) == FALSE

\* is_duplicate(post_id, content_hash) on tracker tr
TrackerIsDuplicate(tr, post_id, content_hash) ==
    IF post_id \in DOMAIN tr.by_id THEN TRUE
    ELSE Truthy(content_hash) /\ content_hash \in DOMAIN tr.by_hash

\* Mutant: a repeated mark_seen leaves the count alone.
TrackerMarkSeenNoCount(tr, post_id, content_hash, t) ==
    IF post_id \in DOMAIN tr.by_id
    THEN [tr EXCEPT !.by_id[post_id].last_seen_at = t]
    ELSE [by_id |-> DictPut(tr.by_id, post_id,
                            SeenPost(post_id, content_hash, t)),
          by_hash |-> DictPut(tr.by_hash, content_hash, post_id)]

\* The tracker after mark_seen(post_id, content_hash) at time t
TrackerMarkSeen(tr, post_id, content_hash, t) ==
    IF post_id \in DOMAIN tr.by_id
    THEN [tr EXCEPT !.by_id[post_id].last_seen_at = t,
                    !.by_id[post_id].seen_count = @ + 1]
    ELSE [by_id |-> DictPut(tr.by_id, post_id,
                            SeenPost(post_id, content_hash, t)),
          by_hash |-> DictPut(tr.by_hash, content_hash, post_id)]

\* History of mark_seen: per identity that was marked and not removed
\* since, the number of calls, the time of the first one and the
\* fingerprints the calls were made with.
LogMarkSeen(m, post_id, content_hash, t) ==
    IF post_id \in DOMAIN m
    THEN [m EXCEPT ![post_id].count = @ + 1,
                   ![post_id].hashes = @ \cup {content_hash}]
    ELSE DictPut(m, post_id,
                 [count |-> 1, first |-> t, hashes |-> {content_hash}])

\* What an operation of the tracker or the filter leaves alone.
ddOthers ==
    <<now, ttl, rlVars, boVars, schedVars, threadVars, robVars, shutVars>>

\* is_duplicate(post_id, content_hash)
IsDuplicate(post_id, content_hash) ==
    /\ ret' = [op |-> "is_duplicate", post_id |-> post_id,
               content_hash |-> content_hash,
               val |-> TrackerIsDuplicate(Tracker, post_id, content_hash)]
    /\ UNCHANGED <<by_id, by_hash, marked, returned, ddOthers>>

\* The value has_id(post_id) returns.
HasId(post_id) == post_id \in DOMAIN by_id

\* The value has_hash(content_hash) returns.
HasHash(content_hash) == content_hash \in DOMAIN by_hash

\* mark_seen(post_id, content_hash)
MarkSeen(post_id, content_hash) ==
    /\ post_id \in DOMAIN by_id => by_id[post_id].seen_count < MaxSeen
    /\ LET tr == TrackerMarkSeen(Tracker, post_id, content_hash, now)
       IN  /\ by_id' = tr.by_id
           /\ by_hash' = tr.by_hash
           /\ ret' = [op |-> "mark_seen", post_id |-> post_id,
                      content_hash |-> content_hash,
                      val |-> tr.by_id[post_id]]
    /\ marked' = LogMarkSeen(marked, post_id, content_hash, now)
    /\ UNCHANGED <<returned, ddOthers>>

\* The identities cleanup_expired removes at time t.
ExpiredIds(t) == {p \in DOMAIN by_id : by_id[p].last_seen_at < t - ttl}

\* Mutant: the fingerprints of the removed records stay indexed.
ExpiredHashesNone(t) == {}

\* The fingerprints cleanup_expired pops from by_hash at time t.
ExpiredHashes(t) == {by_id[p].content_hash : p \in ExpiredIds(t)}

\* cleanup_expired()
CleanupExpired ==
    /\ by_id' = DictRemove(by_id, ExpiredIds(now))
    /\ by_hash' = DictRemove(by_hash, ExpiredHashes(now))
    /\ marked' = DictRemove(marked, ExpiredIds(now))
    /\ ret' = [op |-> "cleanup_expired",
               val |-> Cardinality(ExpiredIds(now)),
               before |-> by_id]
    /\ UNCHANGED <<returned, ddOthers>>

\* clear()
Clear ==
    /\ by_id' = <<>>
    /\ by_hash' = <<>>
    /\ marked' = <<>>
    /\ returned' = {}
    /\ ret' = RetNone
    /\ UNCHANGED ddOthers

(* DeduplicationFilter ---------------------------------------------------- *)

\* The fingerprint the filter computes for a post.
PostHash(post) ==
    CalculateContentHash(post.id, post.agent_id, post.title, post.submolt)

RECURSIVE FilterLoop(_, _, _)
\* The loop of filter_new over `posts`, from the tracker, the history and
\* the results in acc.
FilterLoop(posts, mark_seen, acc) ==
    IF posts = <<>> THEN acc
    ELSE LET post == Head(posts)
             content_hash == PostHash(post)
         IN  IF TrackerIsDuplicate(acc.tracker, post.id, content_hash)
             THEN FilterLoop(Tail(posts), mark_seen,
                             [acc EXCEPT !.skipped = @ + 1])
             ELSE FilterLoop(Tail(posts), mark_seen,
                      [acc EXCEPT
                           !.new_posts = Append(@, post),
                           !.tracker =
                               IF mark_seen
                               THEN TrackerMarkSeen(@, post.id,
                                                    content_hash, now)
                               ELSE @,
                           !.marked =
                               IF mark_seen
                               THEN LogMarkSeen(@, post.id, content_hash,
                                                now)
                               ELSE @])

\* The elements of a sequence.
Range(seq) == {seq[i] : i \in DOMAIN seq}

\* filter_new(posts, mark_seen)
FilterNew(posts, mark_seen) ==
    LET res == FilterLoop(posts, mark_seen,
                          [tracker |-> Tracker, marked |-> marked,
                           new_posts |-> <<>>, skipped |-> 0])
    IN  /\ by_id' = res.tracker.by_id
        /\ by_hash' = res.tracker.by_hash
        /\ marked' = res.marked
        /\ returned' = IF mark_seen THEN returned \cup Range(res.new_posts)
                       ELSE returned
        /\ ret' = [op |-> "filter_new", posts |-> posts,
                   mark_seen |-> mark_seen, new_posts |-> res.new_posts,
                   skipped |-> res.skipped, before |-> returned]
        /\ UNCHANGED ddOthers

\* is_new(post)
IsNew(post) ==
    /\ ret' = [op |-> "is_new", post |-> post,
               val |-> ~TrackerIsDuplicate(Tracker, post.id, PostHash(post))]
    /\ UNCHANGED <<by_id, by_hash, marked, returned, ddOthers>>

\* mark_post_seen(post)
MarkPostSeen(post) == MarkSeen(post.id, PostHash(post))

\* The clock of the tracker moves on.
DedupTick ==
    /\ now < DedupMaxTime
    /\ now' = now + 1
    /\ ret' = RetNone
    /\ UNCHANGED <<ttl, by_id, by_hash, marked, returned, rlVars, boVars,
                   schedVars, threadVars, robVars, shutVars>>

(***************************************************************************)
(* robots.txt rules (monitor/robots.py).  A path and the path of a rule    *)
(* are sequences of pieces of text; in a rule "*" is the wildcard and a    *)
(* final "$" the end anchor.                                               *)
(***************************************************************************)
RECURSIVE MatchesFrom(_, _)
\* re.match of the rule's pattern at the start of `path`: each piece
\* matches itself, "*" any run of pieces, a final "$" the end of the path,
\* and a pattern that is used up matches whatever follows.
MatchesFrom(pattern, path) ==
    IF pattern = <<>> THEN TRUE
    ELSE IF pattern = <<"$">> THEN path = <<>>
    ELSE IF Head(pattern) = "*"
    THEN \E k \in 0..Len(path) :
             MatchesFrom(Tail(pattern), SubSeq(path, k + 1, Len(path)))
    ELSE /\ path # <<>>
         /\ Head(path) = Head(pattern)
         /\ MatchesFrom(Tail(pattern), Tail(path))

\* RobotsRule.matches(path)
RuleMatches(rule, path) == MatchesFrom(rule.path, path)

RECURSIVE IsAllowedLastMatch(_, _)
\* Mutant: the last matching rule decides.
IsAllowedLastMatch(rule_list, path) ==
    IF rule_list = <<>> THEN TRUE
    ELSE IF RuleMatches(rule_list[Len(rule_list)], path)
    THEN rule_list[Len(rule_list)].allow
    ELSE IsAllowedLastMatch(SubSeq(rule_list, 1, Len(rule_list) - 1), path)

RECURSIVE IsAllowed(_, _)
\* RobotsDirectives.is_allowed(path), over the directives' rules
IsAllowed(rule_list, path) ==
    IF rule_list = <<>> THEN TRUE
    ELSE IF RuleMatches(Head(rule_list), path) THEN Head(rule_list).allow
    ELSE IsAllowed(Tail(rule_list), path)

robOthers ==
    <<now, checkerVars, rlVars, boVars, schedVars, threadVars, ddVars,
      shutVars>>

\* RobotsChecker.user_agent = "OpenClawMonitor"
DefaultUserAgent == <<"Open", "Claw", "Monitor">>

\* RobotsChecker.cache_duration = timedelta(hours=24), in seconds
DefaultCacheDuration == 24 * 3600

\* The origins robots.txt is fetched from.
Origins == {"https://example.com", "https://other.org"}

\* client.get(robots_url) answers with a status code and a text, or raises.
Response(status_code, text) ==
    [kind |-> "response", status_code |-> status_code, text |-> text]

Raises(kind) == [kind |-> kind, status_code |-> 0, text |-> <<>>]

\* One line of a robots.txt, split at its first colon.
Line(key, value) == [key |-> key, value |-> value]

\* RobotsChecker(user_agent=..., cache_duration=...), for each of
\* user_agents and durations, and origins that have no robots.txt.
CheckerInit(user_agents, durations) ==
    /\ user_agent \in user_agents
    /\ directives_list = <<>>
    /\ cache_duration \in durations
    /\ cache = <<>>
    /\ site = [o \in Origins |-> Response(404, <<>>)]

\* RobotsDirectives(user_agent): rules = field(default_factory=list),
\* and RobotsChecker()
RobotsInit ==
    /\ rules = <<>>
    /\ CheckerInit({DefaultUserAgent}, {DefaultCacheDuration})

\* rules.append(RobotsRule(path=value, allow=...)), for a non-empty value
AppendRule(rule) ==
    /\ Len(rules) < MaxRules
    /\ rule.path # <<>>
    /\ rules' = Append(rules, rule)
    /\ ret' = RetNone
    /\ UNCHANGED robOthers

\* is_allowed(path)
DoIsAllowed(path) ==
    /\ ret' = [op |-> "is_allowed", path |-> path,
               val |-> IsAllowed(rules, path)]
    /\ UNCHANGED <<rules, robOthers>>

(* RobotsChecker ---------------------------------------------------------- *)

\* str.lower() of one piece of text
LowerPiece(piece) ==
    CASE piece = "Open" -> "open"
      [] piece = "Claw" -> "claw"
      [] piece = "CLAW" -> "claw"
      [] piece = "Monitor" -> "monitor"
      [] piece = "Google" -> "google"
      [] piece = "Bot" -> "bot"
      [] OTHER -> piece

\* text.lower()
Lower(text) == [i \in 1..Len(text) |-> LowerPiece(text[i])]

\* inner in outer, for two texts
Contains(inner, outer) ==
    \E k \in 0..(Len(outer) - Len(inner)) :
        SubSeq(outer, k + 1, k + Len(inner)) = inner

\* No block found: None, as a position in the list of blocks.
NoDirectives == 0

\* x or y, for two positions of which 0 is None
Or(x, y) == IF x # NoDirectives THEN x ELSE y

RECURSIVE FindLoopWildcardFirst(_, _, _, _)
\* Mutant: a `*` block is preferred to a partial match.
FindLoopWildcardFirst(ua, blocks, i, found) ==
    IF i > Len(blocks)
    THEN Or(found.exact_match, Or(found.wildcard_match, found.partial_match))
    ELSE LET ua_lower == Lower(ua)
             agent == Lower(blocks[i].user_agent)
         IN  FindLoopWildcardFirst(ua, blocks, i + 1,
                 IF agent = ua_lower THEN [found EXCEPT !.exact_match = i]
                 ELSE IF agent = <<"*">>
                 THEN [found EXCEPT !.wildcard_match = i]
                 ELSE IF Contains(agent, ua_lower) \/ Contains(ua_lower, agent)
                 THEN [found EXCEPT !.partial_match = i]
                 ELSE found)

RECURSIVE FindLoop(_, _, _, _)
\* The loop of _find_matching_directives from block i on, and its return.
FindLoop(ua, blocks, i, found) ==
    IF i > Len(blocks)
    THEN Or(found.exact_match, Or(found.partial_match, found.wildcard_match))
    ELSE LET ua_lower == Lower(ua)
             agent == Lower(blocks[i].user_agent)
         IN  FindLoop(ua, blocks, i + 1,
                 IF agent = ua_lower THEN [found EXCEPT !.exact_match = i]
                 ELSE IF agent = <<"*">>
                 THEN [found EXCEPT !.wildcard_match = i]
                 ELSE IF Contains(agent, ua_lower) \/ Contains(ua_lower, agent)
                 THEN [found EXCEPT !.partial_match = i]
                 ELSE found)

\* _find_matching_directives(directives_list) for the identity ua: the
\* position of the block it returns, NoDirectives for None.
FindMatchingDirectives(ua, blocks) ==
    FindLoop(ua, blocks, 1,
             [exact_match |-> NoDirectives, partial_match |-> NoDirectives,
              wildcard_match |-> NoDirectives])

\* The end of RobotsChecker.is_allowed: the answer for `path` from the
\* blocks of a cache entry.
AllowedByDirectives(ua, blocks, path) ==
    LET directives == FindMatchingDirectives(ua, blocks)
    IN  IF directives = NoDirectives THEN TRUE
        ELSE IsAllowed(blocks[directives].rules, path)

checkerOthers ==
    <<now, rules, rlVars, boVars, schedVars, threadVars, ddVars, shutVars>>

\* directives_list.append(RobotsDirectives(user_agent=..., rules=...))
AppendDirectives(block) ==
    /\ Len(directives_list) < MaxBlocks
    /\ directives_list' = Append(directives_list, block)
    /\ ret' = RetNone
    /\ UNCHANGED <<user_agent, cache_duration, cache, site, checkerOthers>>

\* _find_matching_directives(directives_list)
DoFindMatchingDirectives ==
    /\ ret' = [op |-> "find_matching_directives",
               val |-> FindMatchingDirectives(user_agent, directives_list)]
    /\ UNCHANGED <<checkerVars, checkerOthers>>

\* is_allowed(url) from the blocks of the cache entry on
DoAllowedByDirectives(path) ==
    /\ ret' = [op |-> "allowed_by_directives", path |-> path,
               val |-> AllowedByDirectives(user_agent, directives_list, path)]
    /\ UNCHANGED <<checkerVars, checkerOthers>>

(* RobotsChecker: parsing, fetching and the cache -------------------------- *)

\* RobotsDirectives(user_agent=value)
NewDirectives(agent) ==
    [user_agent |-> agent, rules |-> <<>>, crawl_delay |-> NoneInt,
     sitemaps |-> <<>>]

\* float(value): the number, or NoneInt where it raises ValueError
ParseFloat(value) ==
    CASE value = <<"10">> -> 10
      [] value = <<"2">> -> 2
      [] OTHER -> NoneInt

\* The parser before the first line.
ParseStart ==
    [directives_list |-> <<>>, has_current |-> FALSE,
     current_directives |-> NewDirectives(<<>>), sitemaps |-> <<>>]

RECURSIVE ParseLoop(_, _)
\* The loop of _parse_robots_txt over the lines that have a colon.
ParseLoop(lines, st) ==
    IF lines = <<>> THEN st
    ELSE LET key == Head(lines).key
             value == Head(lines).value
             blocks ==
                 IF key = "user-agent"
                 THEN [st EXCEPT
                          !.directives_list =
                              IF st.has_current
                              THEN Append(@, st.current_directives) ELSE @,
                          !.has_current = TRUE,
                          !.current_directives = NewDirectives(value)]
                 ELSE IF ~st.has_current THEN st
                 ELSE IF key \in {"disallow", "allow"}
                 THEN IF value = <<>> THEN st
                      ELSE [st EXCEPT !.current_directives.rules =
                               Append(@, [path |-> value,
                                          allow |-> key = "allow"])]
                 ELSE IF key = "crawl-delay"
                 THEN IF ParseFloat(value) = NoneInt THEN st
                      ELSE [st EXCEPT !.current_directives.crawl_delay =
                               ParseFloat(value)]
                 ELSE st
         IN  ParseLoop(Tail(lines),
                       IF key = "sitemap"
                       THEN [blocks EXCEPT !.sitemaps = Append(@, value)]
                       ELSE blocks)

\* _parse_robots_txt(content).  Every block is given the one list
\* `sitemaps`, which holds all the sitemaps of the file at the end.
ParseRobotsTxt(content) ==
    LET st == ParseLoop(content, ParseStart)
        all == IF st.has_current
               THEN Append(st.directives_list, st.current_directives)
               ELSE st.directives_list
    IN  [i \in 1..Len(all) |-> [all[i] EXCEPT !.sitemaps = st.sitemaps]]

\* "User-agent: *\nAllow: /"
AllowAllContent == <<Line("user-agent", <<"*">>), Line("allow", <<"/">>)>>

\* Mutant: the content assumed for a 404 closes the site.
FetchedContentClosed(response) ==
    IF response.status_code = 200 THEN response.text
    ELSE <<Line("user-agent", <<"*">>), Line("disallow", <<"/">>)>>

\* fetch_robots_txt: the content taken from a response
FetchedContent(response) ==
    IF response.status_code = 200 THEN response.text
    ELSE IF response.status_code = 404 THEN AllowAllContent
    ELSE AllowAllContent

\* fetch_robots_txt: client.get raised and an except clause returns None
FetchFails(response) ==
    response.kind \in {"timeout", "connect_error", "error"}

\* fetch_robots_txt: the cache entry made from a response at time t
CacheEntry(response, t) ==
    [content |-> FetchedContent(response),
     fetched_at |-> t,
     expires_at |-> t + cache_duration,
     directives |-> ParseRobotsTxt(FetchedContent(response))]

\* Mutant: an entry never expires.
IsExpiredNever(entry) == FALSE

\* RobotsCache.is_expired()
IsExpired(entry) == now > entry.expires_at

\* is_allowed, get_crawl_delay, get_sitemaps: the cache check
NeedsFetch(origin, refresh) ==
    \/ origin \notin DOMAIN cache
    \/ IsExpired(cache[origin])
    \/ refresh

\* The cache after the cache check and the fetch it may have made.
CacheAfterCheck(origin, refresh) ==
    IF NeedsFetch(origin, refresh) /\ ~FetchFails(site[origin])
    THEN DictPut(cache, origin, CacheEntry(site[origin], now))
    ELSE cache

\* cache_entry is None after the cache check
NoCacheEntry(origin, refresh) ==
    NeedsFetch(origin, refresh) /\ FetchFails(site[origin])

\* parsed.path or "/"
PathOrRoot(path) == IF path = <<>> THEN <<"/">> ELSE path

\* The union of the sitemaps of the blocks.
RECURSIVE AllSitemaps(_)
AllSitemaps(blocks) ==
    IF blocks = <<>> THEN {}
    ELSE {Head(blocks).sitemaps[i] : i \in DOMAIN Head(blocks).sitemaps}
             \cup AllSitemaps(Tail(blocks))

cacheOthers ==
    <<now, rules, user_agent, directives_list, cache_duration, site, rlVars,
      boVars, schedVars, threadVars, ddVars, shutVars>>

\* What a call found: whether it fetched, and the cache and the answer of
\* the origin before it.
CallContext(origin, refresh) ==
    [origin |-> origin, refresh |-> refresh,
     fetched |-> NeedsFetch(origin, refresh),
     before |-> cache, response |-> site[origin]]

\* fetch_robots_txt(base_url)
FetchRobotsTxt(origin) ==
    /\ cache' = CacheAfterCheck(origin, TRUE)
    /\ ret' = [op |-> "fetch_robots_txt", origin |-> origin,
               val |-> ~FetchFails(site[origin])]
    /\ UNCHANGED cacheOthers

\* RobotsChecker.is_allowed(url, refresh=refresh), url = origin + path
CheckerIsAllowed(origin, path, refresh) ==
    /\ cache' = CacheAfterCheck(origin, refresh)
    /\ ret' = [op |-> "checker_is_allowed", path |-> PathOrRoot(path),
               call |-> CallContext(origin, refresh),
               val |-> IF NoCacheEntry(origin, refresh) THEN TRUE
                       ELSE AllowedByDirectives(user_agent,
                                CacheAfterCheck(origin, refresh)[origin]
                                    .directives,
                                PathOrRoot(path))]
    /\ UNCHANGED cacheOthers

\* The end of get_crawl_delay, from the blocks of a cache entry.
CrawlDelayOf(ua, blocks) ==
    LET directives == FindMatchingDirectives(ua, blocks)
    IN  IF directives = NoDirectives THEN NoneInt
        ELSE blocks[directives].crawl_delay

\* get_crawl_delay(base_url)
GetCrawlDelay(origin) ==
    /\ cache' = CacheAfterCheck(origin, FALSE)
    /\ ret' = [op |-> "get_crawl_delay",
               call |-> CallContext(origin, FALSE),
               val |-> IF NoCacheEntry(origin, FALSE) THEN NoneInt
                       ELSE CrawlDelayOf(user_agent,
                                CacheAfterCheck(origin, FALSE)[origin]
                                    .directives)]
    /\ UNCHANGED cacheOthers

\* get_sitemaps(base_url): the list it returns, as a set
GetSitemaps(origin) ==
    /\ cache' = CacheAfterCheck(origin, FALSE)
    /\ ret' = [op |-> "get_sitemaps",
               call |-> CallContext(origin, FALSE),
               val |-> IF NoCacheEntry(origin, FALSE) THEN {}
                       ELSE AllSitemaps(CacheAfterCheck(origin, FALSE)[origin]
                                            .directives)]
    /\ UNCHANGED cacheOthers

\* clear_cache()
ClearCache ==
    /\ cache' = <<>>
    /\ ret' = RetNone
    /\ UNCHANGED cacheOthers

\* The origin's robots.txt, or the way its server answers, changes.
SiteChange(origin, response) ==
    /\ site[origin] # response
    /\ site' = [site EXCEPT ![origin] = response]
    /\ ret' = RetNone
    /\ UNCHANGED <<now, rules, user_agent, directives_list, cache_duration,
                   cache, rlVars, boVars, schedVars, threadVars, ddVars,
                   shutVars>>

\* The clock of the checker moves on.
RobotsTick ==
    /\ now < RobotsMaxTime
    /\ now' = now + 1
    /\ ret' = RetNone
    /\ UNCHANGED <<robVars, rlVars, boVars, schedVars, threadVars, ddVars,
                   shutVars>>

(***************************************************************************)
(* Spec: the rate limiter's windows and the upstream-reported limits,      *)
(* for every configuration of small limits.                                *)
(***************************************************************************)
WindowConfigs ==
    {SmallRateLimitConfig(m, h, 3) : m \in 1..2, h \in 2..3}

Init ==
    /\ now = 0
    /\ RateLimiterInit(WindowConfigs)
    /\ BackoffInit({DefaultBackoffConfig})
    /\ SchedulerInit
    /\ ThreadsInit
    /\ DedupInit({DefaultTtl})
    /\ RobotsInit
    /\ ret = RetNone

Next ==
    \/ Tick
    \/ RecordRequest("reserve")
    \/ DoCanRequest(NoneStr)
    \/ DoWaitTime
    \/ \E hdr \in {<<0, now + 2>>, <<1, now + 2>>, <<0, NoneInt>>} :
           UpdateFromResponse(NoneInt, hdr[1], hdr[2])

Spec == Init /\ [][Next]_vars

(***************************************************************************)
(* SpecCleanup: the four queries that run the cleanup pass, between        *)
(* requests and ticks of the clock.                                        *)
(***************************************************************************)
NextCleanup ==
    \/ Tick
    \/ RecordRequest("reserve")
    \/ DoCanRequest(NoneStr)
    \/ DoWaitTime
    \/ GetStatus
    \/ CheckThresholds

SpecCleanup == Init /\ [][NextCleanup]_vars

(***************************************************************************)
(* SpecBudget: the per-category budget of the rate limiter.                *)
(***************************************************************************)
BudgetConfigs ==
    {SmallRateLimitConfig(10, 30, 30), SmallRateLimitConfig(5, 2, 30)}

InitBudget ==
    /\ now = 0
    /\ RateLimiterInit(BudgetConfigs)
    /\ BackoffInit({DefaultBackoffConfig})
    /\ SchedulerInit
    /\ ThreadsInit
    /\ DedupInit({DefaultTtl})
    /\ RobotsInit
    /\ ret = RetNone

NextBudget ==
    \/ Tick
    \/ \E b \in {"trending", "agents", "reserve"} : RecordRequest(b)
    \/ \E b \in {"trending", "agents", "reserve", "new_posts"} :
           DoCanRequest(b)
    \/ ResetBudget
    \/ UpdateFromResponse(NoneInt, 0, now + 2)

SpecBudget == InitBudget /\ [][NextBudget]_vars

(***************************************************************************)
(* SpecBackoff: the backoff handler's per-endpoint state machine.          *)
(***************************************************************************)
BackoffConfigs == {BackoffConfig(e, 300) : e \in 0..ExponentBound}

InitBackoff ==
    /\ now = 0
    /\ RateLimiterInit({DefaultRateLimitConfig})
    /\ BackoffInit(BackoffConfigs)
    /\ SchedulerInit
    /\ ThreadsInit
    /\ DedupInit({DefaultTtl})
    /\ RobotsInit
    /\ ret = RetNone

NextBackoff ==
    \/ \E e \in Endpoints, k \in {"server_error", "timeout"},
          r \in {NoneInt, 2} : DoRecordError(e, k, r)
    \/ \E e \in Endpoints : DoRecordSuccess(e)
    \/ \E e \in Endpoints, k \in {"client_error", "server_error"} :
           DoShouldRetry(e, k)
    \/ \E e \in Endpoints : ResetEndpoint(e)
    \/ ResetAll

SpecBackoff == InitBackoff /\ [][NextBackoff]_vars

(***************************************************************************)
(* SpecDelay: the delays the backoff handler computes for one endpoint,    *)
(* for every error type, with and without a retry-after, under the default *)
(* configuration and under one whose max_delay the formulas exceed.        *)
(***************************************************************************)
DelayConfigs == {DefaultBackoffConfig, BackoffConfig(2, 5)}

\* retry_after_seconds: absent, zero, below and above max_delay.
RetryAfters == {NoneInt, 0, 30, 400}

InitDelay ==
    /\ now = 0
    /\ RateLimiterInit({DefaultRateLimitConfig})
    /\ BackoffInit(DelayConfigs)
    /\ SchedulerInit
    /\ ThreadsInit
    /\ DedupInit({DefaultTtl})
    /\ RobotsInit
    /\ ret = RetNone

NextDelay ==
    \/ \E k \in ErrorType, r \in RetryAfters :
           DoRecordError("new_posts", k, r)
    \/ \E k \in ErrorType, r \in RetryAfters :
           DoCalculateDelay("new_posts", k, r)
    \/ DoRecordSuccess("new_posts")
    \/ ResetEndpoint("new_posts")

SpecDelay == InitDelay /\ [][NextDelay]_vars

(***************************************************************************)
(* SpecAllowed: get_next_allowed_time after errors with and without a      *)
(* retry-after, successes and ticks of the clock.                          *)
(***************************************************************************)
NextAllowed ==
    \/ \E k \in {"rate_limited", "client_error", "timeout"},
          r \in RetryAfters : DoRecordError("new_posts", k, r)
    \/ DoRecordSuccess("new_posts")
    \/ DoGetNextAllowedTime("new_posts")
    \/ BackoffTick

SpecAllowed == InitDelay /\ [][NextAllowed]_vars

(***************************************************************************)
(* SpecDedup: one deduplication tracker with a time-to-live of SmallTtl    *)
(* clock units, called with two identities and two fingerprints.           *)
(***************************************************************************)
DedupHashes == {"h1", "h2"}

InitDedup ==
    /\ now = 0
    /\ RateLimiterInit({DefaultRateLimitConfig})
    /\ BackoffInit({DefaultBackoffConfig})
    /\ SchedulerInit
    /\ ThreadsInit
    /\ DedupInit({SmallTtl})
    /\ RobotsInit
    /\ ret = RetNone

NextDedup ==
    \/ DedupTick
    \/ \E p \in PostIds, h \in DedupHashes : MarkSeen(p, h)
    \/ \E p \in PostIds, h \in DedupHashes \cup {NoneStr} :
           IsDuplicate(p, h)
    \/ CleanupExpired
    \/ Clear

SpecDedup == InitDedup /\ [][NextDedup]_vars

(***************************************************************************)
(* SpecFilter: one deduplication filter given batches of posts that differ *)
(* in identity and author.                                                 *)
(***************************************************************************)
\* A post, a repost of it under another identity, and a post by another
\* author whose colon-joined text is that of the repost.
FilterPosts ==
    {[id |-> "p1", agent_id |-> "a", title |-> "t", submolt |-> "m"],
     [id |-> "p1:a", agent_id |-> "a", title |-> "t", submolt |-> "m"],
     [id |-> "p1", agent_id |-> "a:a", title |-> "t", submolt |-> "m"]}

\* The batches of at most n posts.
Batches(n) ==
    UNION {[1..k -> FilterPosts] : k \in 0..n}

InitFilter ==
    /\ now = 0
    /\ RateLimiterInit({DefaultRateLimitConfig})
    /\ BackoffInit({DefaultBackoffConfig})
    /\ SchedulerInit
    /\ ThreadsInit
    /\ DedupInit({DefaultTtl})
    /\ RobotsInit
    /\ ret = RetNone

NextFilter ==
    \/ \E posts \in Batches(MaxBatch), mark_seen \in BOOLEAN :
           FilterNew(posts, mark_seen)
    \/ \E post \in FilterPosts : IsNew(post)
    \/ \E post \in FilterPosts : MarkPostSeen(post)

SpecFilter == InitFilter /\ [][NextFilter]_vars

(***************************************************************************)
(* SpecRobots: the directives of one user-agent asked about paths, for     *)
(* every list of at most MaxRules rules over a few rule paths.             *)
(***************************************************************************)
RulePaths ==
    {<<"/">>, <<"/", "admin/">>, <<"/", "admin/", "public/">>,
     <<"*", "public/">>, <<"/", "admin/", "$">>}

RobotsRules == {[path |-> rp, allow |-> a] : rp \in RulePaths, a \in BOOLEAN}

RobotsPaths ==
    {<<>>, <<"/">>, <<"/", "admin/">>, <<"/", "admin/", "public/">>,
     <<"/", "admin/", "settings">>, <<"/", "files/", "public/">>}

InitRobots ==
    /\ now = 0
    /\ RateLimiterInit({DefaultRateLimitConfig})
    /\ BackoffInit({DefaultBackoffConfig})
    /\ SchedulerInit
    /\ ThreadsInit
    /\ DedupInit({DefaultTtl})
    /\ RobotsInit
    /\ ret = RetNone

NextRobots ==
    \/ \E rule \in RobotsRules : AppendRule(rule)
    \/ \E path \in RobotsPaths : DoIsAllowed(path)

SpecRobots == InitRobots /\ [][NextRobots]_vars

(***************************************************************************)
(* SpecAgents: the block chosen for the requester identity, for every list *)
(* of at most MaxBlocks parsed blocks over a few agent tokens.             *)
(***************************************************************************)
UserAgents == {DefaultUserAgent, <<"Claw", "*">>}

AgentTokens ==
    {<<"Open", "Claw", "Monitor">>, <<"open", "claw", "monitor">>,
     <<"CLAW">>, <<"Open", "Claw", "Monitor", "Bot">>, <<"*">>,
     <<"Google", "Bot">>, <<>>}

\* A block that closes the site and one without rules.
BlockRules == {<<>>, <<[path |-> <<"/">>, allow |-> FALSE]>>}

Blocks == {[user_agent |-> a, rules |-> r] : a \in AgentTokens, r \in BlockRules}

AgentPaths == {<<"/">>, <<"/", "admin/">>}

InitAgents ==
    /\ now = 0
    /\ RateLimiterInit({DefaultRateLimitConfig})
    /\ BackoffInit({DefaultBackoffConfig})
    /\ SchedulerInit
    /\ ThreadsInit
    /\ DedupInit({DefaultTtl})
    /\ rules = <<>>
    /\ CheckerInit(UserAgents, {DefaultCacheDuration})
    /\ ret = RetNone

NextAgents ==
    \/ \E block \in Blocks : AppendDirectives(block)
    \/ DoFindMatchingDirectives
    \/ \E path \in AgentPaths : DoAllowedByDirectives(path)

SpecAgents == InitAgents /\ [][NextAgents]_vars

(***************************************************************************)
(* SpecCache: one checker asked about the URLs of two origins while the    *)
(* clock moves and the origins change what they answer.                    *)
(***************************************************************************)
\* "User-agent: *\nDisallow: /admin/\nCrawl-delay: 10\nSitemap: ..."
AdminContent ==
    <<Line("user-agent", <<"*">>), Line("disallow", <<"/", "admin/">>),
      Line("crawl-delay", <<"10">>), Line("sitemap", <<"sitemap.xml">>)>>

Responses ==
    {Response(200, AdminContent), Response(404, <<>>), Response(500, <<>>),
     Raises("timeout"), Raises("connect_error")}

CachePaths == {<<>>, <<"/", "admin/">>}

InitCache ==
    /\ now = 0
    /\ RateLimiterInit({DefaultRateLimitConfig})
    /\ BackoffInit({DefaultBackoffConfig})
    /\ SchedulerInit
    /\ ThreadsInit
    /\ DedupInit({DefaultTtl})
    /\ rules = <<>>
    /\ CheckerInit({DefaultUserAgent}, {SmallCacheDuration})
    /\ ret = RetNone

NextCache ==
    \/ RobotsTick
    \/ \E o \in Origins, r \in Responses : SiteChange(o, r)
    \/ \E o \in Origins, path \in CachePaths, refresh \in BOOLEAN :
           CheckerIsAllowed(o, path, refresh)
    \/ \E o \in Origins : GetCrawlDelay(o)
    \/ \E o \in Origins : GetSitemaps(o)
    \/ \E o \in Origins : FetchRobotsTxt(o)
    \/ ClearCache

SpecCache == InitCache /\ [][NextCache]_vars

(***************************************************************************)
(* SpecThreads: threads recording requests on one rate limiter.            *)
(***************************************************************************)
InitThreads ==
    /\ now = 0
    /\ RateLimiterInit({DefaultRateLimitConfig})
    /\ BackoffInit({DefaultBackoffConfig})
    /\ SchedulerInit
    /\ ThreadsInit
    /\ DedupInit({DefaultTtl})
    /\ RobotsInit
    /\ ret = RetNone

NextThreads ==
    \/ now < ThreadMaxTime /\ Tick
    \/ \E t \in Threads :
           \/ \E b \in {"reserve", "new_posts"} : RecordRequestCall(t, b)
           \/ RecordRequestAcquire(t)
           \/ RecordRequestTime(t)
           \/ RecordRequestMinute(t)
           \/ RecordRequestHour(t)
           \/ RecordRequestDay(t)
           \/ RecordRequestGetUsage(t)
           \/ RecordRequestSetUsage(t)
           \/ RecordRequestRelease(t)

SpecThreads == InitThreads /\ [][NextThreads]_vars

(***************************************************************************)
(* SpecGuarded: threads that record a request only after can_request       *)
(* allowed it, on a limiter of one request per minute or of ten.           *)
(***************************************************************************)
GuardedConfigs ==
    {SmallRateLimitConfig(1, 2, 3), SmallRateLimitConfig(10, 30, 30)}

InitGuarded ==
    /\ now = 0
    /\ RateLimiterInit(GuardedConfigs)
    /\ BackoffInit({DefaultBackoffConfig})
    /\ SchedulerInit
    /\ ThreadsInit
    /\ DedupInit({DefaultTtl})
    /\ RobotsInit
    /\ ret = RetNone

NextGuarded ==
    \/ now < ThreadMaxTime /\ Tick
    \/ ResetBudget
    \/ \E t \in Threads :
           \/ \E b \in {NoneStr, "trending"} : GuardedCanRequest(t, b)
           \/ GuardedRecordRequest(t)

SpecGuarded == InitGuarded /\ [][NextGuarded]_vars

(***************************************************************************)
(* SpecRace: threads calling mark_seen on one deduplication tracker and    *)
(* record_error on one backoff handler.                                    *)
(***************************************************************************)
NextRace ==
    \E t \in Threads :
        \/ \E p \in PostIds, h \in ContentHashes : MarkSeenCall(t, p, h)
        \/ MarkSeenCheck(t)
        \/ MarkSeenFetch(t)
        \/ MarkSeenLastSeen(t)
        \/ MarkSeenGetCount(t)
        \/ MarkSeenSetCount(t)
        \/ MarkSeenStoreId(t)
        \/ MarkSeenStoreHash(t)
        \/ \E e \in Endpoints : RecordErrorCall(t, e, "server_error", NoneInt)
        \/ GetStateCheck(t)
        \/ GetStateCreate(t)
        \/ GetStateFetch(t)
        \/ RecordErrorGetCount(t)
        \/ RecordErrorSetCount(t)
        \/ RecordErrorAt(t)
        \/ RecordErrorType(t)
        \/ RecordErrorStreak(t)
        \/ RecordErrorRetryAfter(t)
        \/ RecordErrorDelay(t)

SpecRace == InitThreads /\ [][NextRace]_vars

(***************************************************************************)
(* SpecSched: the polling scheduler next to a rate limiter of one request  *)
(* per minute and a backoff handler that gives up after one error.         *)
(***************************************************************************)
PostCounts == {0, 5, 40}

InitSched ==
    /\ now = 0
    /\ RateLimiterInit({RateLimitConfig(1, 5000, 50000, 60, 3600, 86400)})
    /\ BackoffInit({BackoffConfig(1, 300)})
    /\ SchedulerInit
    /\ ThreadsInit
    /\ DedupInit({DefaultTtl})
    /\ RobotsInit
    /\ ret = RetNone

NextSched ==
    \/ Start
    \/ Stop
    \/ \E raises \in BOOLEAN : Job("new_posts", raises)
    \/ \E n \in PostCounts, id \in {NoneStr, "p1"} :
           RecordPollResult("new_posts", n, id)
    \/ \E seconds \in {60, 3600} : Advance(seconds)
    \/ day_requests = <<>> /\ RecordRequest("new_posts")
    \/ endpoint_states = <<>>
           /\ DoRecordError("new_posts", "server_error", NoneInt)

SpecSched == InitSched /\ [][NextSched]_vars

(***************************************************************************)
(* SpecActivity: the activity tracker fed with samples two minutes apart   *)
(* and asked for spikes and adaptive intervals.                            *)
(***************************************************************************)
ActivityCounts == {0, 10, 40}

InitActivity ==
    /\ now = 0
    /\ RateLimiterInit({DefaultRateLimitConfig})
    /\ BackoffInit({DefaultBackoffConfig})
    /\ SchedulerInit
    /\ ThreadsInit
    /\ DedupInit({DefaultTtl})
    /\ RobotsInit
    /\ ret = RetNone

NextActivity ==
    \/ \E count \in ActivityCounts : RecordActivity(count)
    \/ DoIsSpiking
    \/ \E ep \in EndpointType : DoGetAdaptiveInterval(ep)
    \/ \E seconds \in {120, WindowSize} : ActivityAdvance(seconds)

SpecActivity == InitActivity /\ [][NextActivity]_vars

(***************************************************************************)
(* SpecBounds: a running scheduler whose hot_posts timer fires and whose   *)
(* tracker is given activity, with the adaptive interval asked for the     *)
(* endpoint types of the shortest and the longest intervals.               *)
(***************************************************************************)
NextBounds ==
    \/ Start
    \/ TimerFires("hot_posts", FALSE)
    \/ \E count \in ActivityCounts : RecordActivity(count)
    \/ \E ep \in {"new_posts", "submolts"} : DoGetAdaptiveInterval(ep)
    \/ ActivityAdvance(120)

SpecBounds == InitActivity /\ [][NextBounds]_vars

(***************************************************************************)
(* SpecPoll: polls of new_posts reported to a scheduler, between errors of *)
(* new_posts and hot_posts.                                                *)
(***************************************************************************)
Cursors == {NoneStr, "", "p1", "p2"}

InitPoll ==
    /\ now = 0
    /\ RateLimiterInit({DefaultRateLimitConfig})
    /\ BackoffInit({DefaultBackoffConfig})
    /\ SchedulerInit
    /\ ThreadsInit
    /\ DedupInit({DefaultTtl})
    /\ RobotsInit
    /\ ret = RetNone

NextPoll ==
    \/ \E n \in PostCounts, id \in Cursors :
           DoRecordPollResult("new_posts", n, id)
    \/ \E ep \in {"new_posts", "hot_posts"} : RecordPollError(ep, "error")
    \/ Advance(60)

SpecPoll == InitPoll /\ [][NextPoll]_vars

(***************************************************************************)
(* SpecFailure: polls that fail, in a timer job, in trigger_poll, or       *)
(* reported with record_poll_error, while the activity changes.            *)
(***************************************************************************)
InitFailure ==
    /\ now = 0
    /\ RateLimiterInit({DefaultRateLimitConfig})
    /\ BackoffInit({DefaultBackoffConfig})
    /\ SchedulerInit
    /\ ThreadsInit
    /\ DedupInit({DefaultTtl})
    /\ RobotsInit
    /\ ret = RetNone

NextFailure ==
    \/ Start
    \/ Stop
    \/ \E raises \in BOOLEAN : Job("new_posts", raises)
    \/ \E ep \in {"new_posts", "comments"} : RecordPollError(ep, "error")
    \/ \E ep \in {"new_posts", "comments"}, raises \in BOOLEAN :
           TriggerPoll(ep, raises)
    \/ \E count \in ActivityCounts : RecordActivity(count)
    \/ ActivityAdvance(120)

SpecFailure == InitFailure /\ [][NextFailure]_vars

(***************************************************************************)
(* SpecOnDemand: a scheduler started and stopped, its timers firing for    *)
(* the jobs it has, and polls triggered by hand.                           *)
(***************************************************************************)
\* The endpoint types polled by hand.
TriggeredEndpoints == {"new_posts", "comments", "agents"}

InitOnDemand ==
    /\ now = 0
    /\ RateLimiterInit({DefaultRateLimitConfig})
    /\ BackoffInit({DefaultBackoffConfig})
    /\ SchedulerInit
    /\ ThreadsInit
    /\ DedupInit({DefaultTtl})
    /\ RobotsInit
    /\ ret = RetNone

NextOnDemand ==
    \/ Start
    \/ Stop
    \/ \E ep \in EndpointType : TimerFires(ep, FALSE)
    \/ \E ep \in TriggeredEndpoints, raises \in BOOLEAN :
           TriggerPoll(ep, raises)

SpecOnDemand == InitOnDemand /\ [][NextOnDemand]_vars

(***************************************************************************)
(* SpecShutdown: a scheduler started and stopped, with or without waiting, *)
(* while the jobs of two of its timers begin, poll and end, step by step.   *)
(***************************************************************************)
FiringEndpoints == {"new_posts", "hot_posts"}

NextShutdown ==
    \/ StartAfresh
    \/ \E wait \in BOOLEAN : StopSignals(wait)
    \/ StopReturns
    \/ \E ep \in FiringEndpoints : FiringBegins(ep)
    \/ \E ep \in FiringEndpoints : FiringPolls(ep)
    \/ \E ep \in FiringEndpoints, raises \in BOOLEAN : FiringEnds(ep, raises)

SpecShutdown == InitOnDemand /\ [][NextShutdown]_vars

(***************************************************************************)
(* SpecCallback: timer jobs and trigger_poll calls whose callback returns  *)
(* or raises, on a scheduler that is started and stopped while time        *)
(* passes.                                                                 *)
(***************************************************************************)
NextCallback ==
    \/ Start
    \/ Stop
    \/ \E ep \in {"new_posts", "hot_posts"}, raises \in BOOLEAN :
           TimerFires(ep, raises)
    \/ \E ep \in {"new_posts", "comments"}, raises \in BOOLEAN :
           TriggerPoll(ep, raises)
    \/ Advance(60)

SpecCallback == InitFailure /\ [][NextCallback]_vars

(***************************************************************************)
(* SpecPersist: the poll states saved by a scheduler that has polled and   *)
(* failed, and restored by the scheduler of the next process.              *)
(***************************************************************************)
\* The values an entry of a snapshot may hold.
PersistedValues ==
    {PersistedState("p9", IsoFormat(3720), 2, 7),
     PersistedState("p9", MalformedTimestamp, 2, 7),
     PersistedState("p9", NumberTimestamp, 2, 7),
     [shape |-> "str", last_post_id |-> NoneStr,
      last_poll_at |-> NoTimestamp, error_count |-> 0,
      total_posts_fetched |-> 0]}

PersistedNames == {"new_posts", "hot_posts", "bogus"}

\* The snapshots of one or two entries, no name twice.
Snapshots ==
    {<<[name |-> n, data |-> d]>> :
         n \in PersistedNames, d \in PersistedValues}
    \cup {state_data \in
              {<<[name |-> n1, data |-> d1], [name |-> n2, data |-> d2]>> :
                   n1 \in PersistedNames, n2 \in PersistedNames,
                   d1 \in PersistedValues, d2 \in PersistedValues} :
              state_data[1].name # state_data[2].name}

InitPersist ==
    /\ now = 0
    /\ RateLimiterInit({DefaultRateLimitConfig})
    /\ BackoffInit({DefaultBackoffConfig})
    /\ SchedulerInit
    /\ ThreadsInit
    /\ DedupInit({DefaultTtl})
    /\ RobotsInit
    /\ ret = RetNone

NextPersist ==
    \/ \E id \in {NoneStr, "p1"} : DoRecordPollResult("new_posts", 40, id)
    \/ RecordPollError("new_posts", "error")
    \/ \E seconds \in {60, 3600} : Advance(seconds)
    \/ Restart

SpecPersist == InitPersist /\ [][NextPersist]_vars

(***************************************************************************)
(* SpecRestore: restore_state given snapshots of one or two entries that   *)
(* may be damaged, on a scheduler that has polled or failed.               *)
(***************************************************************************)
NextRestore ==
    \/ DoRecordPollResult("new_posts", 40, "p1")
    \/ RecordPollError("new_posts", "error")
    \/ \E state_data \in Snapshots : RestoreState(state_data)

SpecRestore == InitPersist /\ [][NextRestore]_vars

(***************************************************************************)
(* Claims about the RateLimiter (Spec, SpecBudget)                         *)
(***************************************************************************)
\* C2: after exactly requests_per_minute record_request calls whose
\* timestamps are all still in the minute window (the cleanup of wait_time
\* has kept them all), can_request() is false and wait_time() has returned a
\* value that is > 0 and <= minute_window.
C2_SaturatedMinuteWindow ==
    (/\ ret.op = "wait_time"
     /\ Len(minute_requests) = config.requests_per_minute) =>
        /\ ~CanRequest(NoneStr)
        /\ ret.val > 0
        /\ ret.val <= config.minute_window

\* C3: whenever can_request() is false, sleeping exactly the delay that
\* wait_time() has just returned, with no record_request and no upstream
\* update in between, makes can_request() true.
C3_SleepingWaitTimeUnblocks ==
    (ret.op = "wait_time" /\ ~CanRequest(NoneStr)) =>
        CanRequestAt(now + ret.val, NoneStr)

\* C4: with no hard window limit and no upstream block in force,
\* can_request(category) is false exactly when the category's usage is at or
\* above floor(requests_per_minute * allocation) and the reserve's usage is
\* at or above floor(requests_per_minute * reserve allocation).
C4_BudgetRule ==
    (/\ ret.op = "can_request"
     /\ ret.budget # NoneStr
     /\ ~HardLimitedAt(now)
     /\ ~ApiBlockedAt(now)) =>
        ret.val =
            ~(/\ budget_usage[ret.budget] * 100
                     >= 100 * ((config.requests_per_minute
                                * BUDGET_ALLOCATION[ret.budget]) \div 100)
              /\ budget_usage["reserve"] * 100
                     >= 100 * ((config.requests_per_minute
                                * BUDGET_ALLOCATION["reserve"]) \div 100))

\* can_request has just allowed a category that has used up its own
\* allocation, because the reserve still has room.
C4_Witness ==
    /\ ret.op = "can_request"
    /\ ret.budget = "trending"
    /\ ret.val = TRUE
    /\ config.requests_per_minute = 10
    /\ budget_usage["trending"] = 2
    /\ budget_usage["reserve"] = 0

\* C5: budget usage counts only the current minute, so once the minute
\* window holds no request any more (and no hard limit or upstream block is
\* in force) can_request(category) allows every category that has an
\* allocation, without reset_budget or any other call.
C5_BudgetRenewsEachMinute ==
    (/\ ret.op = "can_request"
     /\ ret.budget # NoneStr
     /\ MaxForBudget(ret.budget) > 0
     /\ minute_requests = <<>>
     /\ ~HardLimitedAt(now)
     /\ ~ApiBlockedAt(now)) =>
        ret.val = TRUE

(***************************************************************************)
(* Claims about the BackoffHandler (SpecBackoff)                           *)
(***************************************************************************)
\* The endpoint's error count as a caller sees it (0 when it has no state).
ErrorCountOf(e) ==
    IF e \in DOMAIN endpoint_states THEN endpoint_states[e].error_count ELSE 0

\* should_retry refuses the endpoint for every kind that is not a client
\* error.
MaxedOut(e) == ErrorCountOf(e) >= backoff_config.max_exponent

\* C8 as stated: once should_retry(endpoint, kind) is false for a kind other
\* than ClientError because the error count reached max_exponent, only
\* reset_endpoint or reset_all makes it true again, whatever record_error and
\* record_success calls follow.
C8_OnlyResetResumes ==
    [][\A e \in Endpoints :
          (MaxedOut(e) /\ ~MaxedOut(e)') =>
              ret'.op \in {"reset_endpoint", "reset_all"}]_vars

\* C8 amended: once should_retry(endpoint, kind) is false for a kind other
\* than ClientError because the error count reached max_exponent, it stays
\* false through every later record_error, and through record_success calls
\* until one of them is the third consecutive success of that endpoint; it
\* becomes true again only by that third success, reset_endpoint or
\* reset_all.
C8_ResetOrThreeSuccessesResume ==
    [][\A e \in Endpoints :
          (MaxedOut(e) /\ ~MaxedOut(e)') =>
              \/ ret'.op \in {"reset_endpoint", "reset_all"}
              \/ /\ ret'.op = "record_success"
                 /\ ret'.endpoint = e
                 /\ endpoint_states'[e].consecutive_successes >= 3]_vars

\* A refused endpoint that two successes in a row have not yet released.
C8_Witness ==
    \E e \in Endpoints :
        /\ backoff_config.max_exponent > 0
        /\ MaxedOut(e)
        /\ ret.op = "record_success"
        /\ ret.endpoint = e
        /\ endpoint_states[e].consecutive_successes = 2

\* C9: should_retry(endpoint, kind) is false when kind is ClientError, false
\* when the endpoint's error count is at or above max_exponent, and true in
\* every other case, an endpoint without any state included.
C9_ShouldRetryTable ==
    ret.op = "should_retry" =>
        ret.val = ~(\/ ret.error_type = "client_error"
                    \/ ErrorCountOf(ret.endpoint)
                           >= backoff_config.max_exponent)

\* should_retry has just refused a server error of an endpoint whose error
\* count is exactly max_exponent.
C9_Witness ==
    /\ ret.op = "should_retry"
    /\ ret.error_type = "server_error"
    /\ ret.val = FALSE
    /\ backoff_config.max_exponent > 0
    /\ ErrorCountOf(ret.endpoint) = backoff_config.max_exponent

\* C10: record_success resets the error count to 0 and clears the last error
\* classification and the explicit retry-after exactly when it is the third
\* (or a later) success since the endpoint's last error; with fewer the
\* three fields are left as they were; and every record_error restarts the
\* success count at zero.
C10_ThreeSuccessesReset ==
    [][/\ ret'.op = "record_success" =>
            LET e == ret'.endpoint
                before == GetState(e)
                after == endpoint_states'[e]
            IN  IF since_error'[e] >= 3
                THEN /\ after.error_count = 0
                     /\ after.last_error_type = NoneStr
                     /\ after.retry_after = NoneInt
                ELSE /\ after.error_count = before.error_count
                     /\ after.last_error_type = before.last_error_type
                     /\ after.retry_after = before.retry_after
       /\ ret'.op = "record_error" =>
            endpoint_states'[ret'.endpoint].consecutive_successes = 0]_vars

\* The third success in a row after an error has just been recorded and has
\* cleared the endpoint's error count.
C10_Witness ==
    \E e \in Endpoints :
        /\ ret.op = "record_success"
        /\ ret.endpoint = e
        /\ since_error[e] = 3
        /\ endpoint_states[e].consecutive_successes = 3
        /\ endpoint_states[e].last_error_at # NoneInt
        /\ endpoint_states[e].error_count = 0

(***************************************************************************)
(* Claims about the delays of the BackoffHandler (SpecDelay).  Delays are  *)
(* in hundredths of a second.                                              *)
(***************************************************************************)

\* A delay has just been returned by calculate_delay or by record_error.
DelayReturned == ret.op \in {"calculate_delay", "record_error"}

\* C11: for every endpoint state, every error kind other than ClientError
\* and every positive retry-after r, calculate_delay and record_error
\* return exactly min(r, max_delay), without jitter and whatever the
\* endpoint's error count is.
C11_RetryAfterIsTheDelay ==
    (/\ DelayReturned
     /\ ret.error_type # "client_error"
     /\ ret.retry_after_seconds # NoneInt
     /\ ret.retry_after_seconds > 0) =>
        ret.val = 100 * (IF ret.retry_after_seconds
                                <= backoff_config.max_delay
                         THEN ret.retry_after_seconds
                         ELSE backoff_config.max_delay)

\* record_error has returned a retry-after above max_delay, cut down to
\* max_delay, for an endpoint with several errors on record.
C11_Witness ==
    /\ ret.op = "record_error"
    /\ ret.error_type = "timeout"
    /\ ret.retry_after_seconds > backoff_config.max_delay
    /\ ret.val = 100 * backoff_config.max_delay
    /\ ErrorCountOf("new_posts") >= 3

\* C12: calculate_delay returns 0 for ClientError in every endpoint state,
\* whatever the error count and even when a positive retry-after is
\* supplied (and so does record_error, which returns calculate_delay's
\* value).
C12_ClientErrorDelayIsZero ==
    (DelayReturned /\ ret.error_type = "client_error") => ret.val = 0

\* calculate_delay has returned 0 for a client error that came with a
\* positive retry-after, on an endpoint with errors on record.
C12_Witness ==
    /\ ret.op = "calculate_delay"
    /\ ret.error_type = "client_error"
    /\ ret.retry_after_seconds = 30
    /\ ret.val = 0
    /\ ErrorCountOf("new_posts") >= 2

\* base * 2^min(error_count, max_exponent), or for a timeout
\* base * timeout_multiplier * error_count: the delay before jitter, in
\* seconds, on the endpoint's state as the call left it.
UnjitteredDelay(endpoint, error_type) ==
    IF error_type = "timeout"
    THEN backoff_config.base_delay * backoff_config.timeout_multiplier
             * ErrorCountOf(endpoint)
    ELSE backoff_config.base_delay
             * 2 ^ (IF ErrorCountOf(endpoint) <= backoff_config.max_exponent
                    THEN ErrorCountOf(endpoint)
                    ELSE backoff_config.max_exponent)

\* C13: with no positive retry-after and an error kind other than
\* ClientError, the delay is j * base * 2^min(errorCount, maxExponent), or
\* for a Timeout j * base * timeoutMultiplier * errorCount, with the jitter
\* j in [0.8, 1.2], cut down to max_delay: it never exceeds max_delay.  With
\* base 1 and maxExponent 8, after 3 recorded ServerErrors the delay lies in
\* [6.4, 9.6].
C13_JitteredDelay ==
    (/\ DelayReturned
     /\ ret.error_type # "client_error"
     /\ ~(ret.retry_after_seconds # NoneInt /\ ret.retry_after_seconds > 0))
    => LET raw == UnjitteredDelay(ret.endpoint, ret.error_type)
           cap == 100 * backoff_config.max_delay
       IN  /\ ret.val <= cap
           /\ ret.val <= 120 * raw
           /\ ret.val >= (IF 80 * raw <= cap THEN 80 * raw ELSE cap)
           /\ (/\ backoff_config.base_delay = 1
               /\ backoff_config.max_exponent = 8
               /\ backoff_config.max_delay = 300
               /\ ret.error_type = "server_error"
               /\ ErrorCountOf(ret.endpoint) = 3)
              => (640 <= ret.val /\ ret.val <= 960)

\* The third server error in a row has just been recorded under the
\* default configuration and the jitter drawn was the largest: 9.6 s.
C13_Witness ==
    /\ ret.op = "record_error"
    /\ ret.error_type = "server_error"
    /\ ret.retry_after_seconds = NoneInt
    /\ backoff_config = DefaultBackoffConfig
    /\ ErrorCountOf("new_posts") = 3
    /\ endpoint_states["new_posts"].last_error_type = "server_error"
    /\ ret.val = 960

(***************************************************************************)
(* Claims about the DeduplicationTracker (SpecDedup)                       *)
(***************************************************************************)

\* C14: in every reachable state of the tracker the two indexes describe
\* the same record set: every fingerprint-index entry points to an identity
\* that is present in the identity index, and every record in the identity
\* index is reachable through the fingerprint index by its own fingerprint.
C14_IndexesAgree ==
    /\ \A h \in DOMAIN by_hash : by_hash[h] \in DOMAIN by_id
    /\ \A p \in DOMAIN by_id :
           /\ by_id[p].content_hash \in DOMAIN by_hash
           /\ by_hash[by_id[p].content_hash] = p

\* Some mark_seen call whose record has not been removed since was made
\* with fingerprint content_hash.
HashWasMarked(content_hash) ==
    \E p \in DOMAIN marked : content_hash \in marked[p].hashes

\* C15: is_duplicate(id, fp) is true if id has been recorded by mark_seen,
\* or if fp is supplied and fp has been recorded by mark_seen under any
\* identity (and the record has not been removed since), also when that
\* identity had already been recorded earlier with another fingerprint; it
\* is false when neither was recorded.
C15_IsDuplicate ==
    ret.op = "is_duplicate" =>
        ret.val = (\/ ret.post_id \in DOMAIN marked
                   \/ /\ Truthy(ret.content_hash)
                      /\ HashWasMarked(ret.content_hash))

\* The identities whose record, in the identity index `before`, was last
\* seen before now - ttl.
OlderThanTtl(before) ==
    {p \in DOMAIN before : before[p].last_seen_at < now - ttl}

\* C17: cleanup_expired removes exactly the records whose last-seen time
\* is older than now - TTL and returns their number; afterwards none of the
\* removed records is present in either index (neither has_id for its
\* identity nor has_hash for its fingerprint finds it), and every record
\* not older than the TTL is still in the identity index, unchanged.
C17_CleanupExpired ==
    ret.op = "cleanup_expired" =>
        /\ DOMAIN by_id = DOMAIN ret.before \ OlderThanTtl(ret.before)
        /\ \A p \in DOMAIN by_id : by_id[p] = ret.before[p]
        /\ ret.val = Cardinality(OlderThanTtl(ret.before))
        /\ \A p \in OlderThanTtl(ret.before) :
               /\ ~HasId(p)
               /\ ~HasHash(ret.before[p].content_hash)

\* cleanup_expired has just removed one record and kept another, whose
\* last-seen time is exactly now - ttl.
C17_Witness ==
    /\ ret.op = "cleanup_expired"
    /\ ret.val = 1
    /\ \E p \in DOMAIN by_id : by_id[p].last_seen_at = now - ttl

\* C18: for any identity, after k calls of mark_seen for it (k >= 1, with
\* no cleanup_expired or clear removing it in between) its record has
\* occurrence count exactly k, a first-seen time equal to the time of the
\* first call, and last-seen >= first-seen; the identity index holds one
\* record per marked identity and no other.
C18_SeenCountIsCallCount ==
    /\ DOMAIN by_id = DOMAIN marked
    /\ \A p \in DOMAIN marked :
           /\ by_id[p].post_id = p
           /\ by_id[p].seen_count = marked[p].count
           /\ by_id[p].first_seen_at = marked[p].first
           /\ by_id[p].last_seen_at >= by_id[p].first_seen_at

\* An identity has been marked more than once, the last time later than
\* the first and with another fingerprint.
C18_Witness ==
    \E p \in DOMAIN marked :
        /\ marked[p].count >= 2
        /\ by_id[p].seen_count >= 2
        /\ by_id[p].last_seen_at > by_id[p].first_seen_at
        /\ Cardinality(marked[p].hashes) = 2

(***************************************************************************)
(* Claims about the DeduplicationFilter (SpecFilter)                       *)
(***************************************************************************)

\* Post q is the same content as post under another identity: same
\* author, title and community.
IsRepostOf(post, q) ==
    /\ q.id # post.id
    /\ q.agent_id = post.agent_id
    /\ q.title = post.title
    /\ q.submolt = post.submolt

\* C16: content reposted or cross-posted under a different identity is
\* still recognized as duplicate.  Once filter_new has returned a post and
\* marked it seen, is_new is false for a post with the same author, title
\* and community under another identity, and filter_new returns no such
\* post as new.
C16_RepostIsDuplicate ==
    /\ ret.op = "is_new" =>
           ((\E q \in returned : IsRepostOf(ret.post, q)) => ~ret.val)
    /\ ret.op = "filter_new" =>
           \A post \in Range(ret.new_posts) :
               ~\E q \in ret.before : IsRepostOf(post, q)

\* The posts of `posts` that are not duplicates for the tracker as it is.
NotDuplicates(posts) ==
    SelectSeq(posts,
              LAMBDA post :
                  ~TrackerIsDuplicate(Tracker, post.id, PostHash(post)))

\* C19: filter_new partitions its input: the number of posts returned as
\* new plus the skipped count equals the input length.  With mark_seen=True
\* every distinct post is returned as new at most once across all calls (no
\* returned post was returned before or is returned twice in the batch, and
\* afterwards every post of the batch is a duplicate, so that a second
\* filter_new over it returns nothing and skips all); with mark_seen=False
\* the tracker is left unchanged and the posts returned are those a second
\* call returns again.
C19_FilterNewPartitions ==
    [][ret'.op = "filter_new" =>
        /\ Len(ret'.new_posts) + ret'.skipped = Len(ret'.posts)
        /\ ret'.mark_seen =>
               /\ Range(ret'.new_posts) \cap returned = {}
               /\ Cardinality(Range(ret'.new_posts)) = Len(ret'.new_posts)
               /\ \A post \in Range(ret'.posts) :
                      TrackerIsDuplicate(Tracker', post.id, PostHash(post))
        /\ ~ret'.mark_seen =>
               /\ by_id' = by_id
               /\ by_hash' = by_hash
               /\ ret'.new_posts = NotDuplicates(ret'.posts)]_vars

\* A second filter_new over a batch of two posts that were both returned
\* before has skipped both.
C19_Witness ==
    /\ ret.op = "filter_new"
    /\ ret.mark_seen
    /\ Len(ret.posts) = 2
    /\ ret.posts[1] # ret.posts[2]
    /\ Range(ret.posts) \subseteq ret.before
    /\ ret.skipped = 2
    /\ ret.new_posts = <<>>

(***************************************************************************)
(* Claims about concurrent callers (SpecThreads, SpecRace)                 *)
(***************************************************************************)

\* C6: record_request calls made concurrently are never lost.  Whenever no
\* call is under way, each of the three windows holds one timestamp per
\* completed call and the budget usage counters sum to the number of
\* completed calls; after every thread has completed CallsPerThread calls
\* that number is NumThreads * CallsPerThread.  (Every timestamp is within
\* the minute window: the clock stays below config.minute_window.)
C6_NoRecordLost ==
    /\ now < config.minute_window
    /\ AllIdle =>
           /\ Len(minute_requests) = completed.record_request
           /\ Len(hour_requests) = completed.record_request
           /\ Len(day_requests) = completed.record_request
           /\ TotalUsage = completed.record_request
    /\ (\A t \in Threads :
            threads[t].pc = "idle" /\ threads[t].calls = CallsPerThread) =>
           /\ Len(minute_requests) = NumThreads * CallsPerThread
           /\ Len(hour_requests) = NumThreads * CallsPerThread
           /\ Len(day_requests) = NumThreads * CallsPerThread
           /\ TotalUsage = NumThreads * CallsPerThread

\* Every thread has completed all its calls, two of the calls on the same
\* budget category were made by different threads, and a thread had to
\* wait for the lock on the way.
C6_Witness ==
    /\ \A t \in Threads :
           threads[t].pc = "idle" /\ threads[t].calls = CallsPerThread
    /\ Len(minute_requests) = NumThreads * CallsPerThread
    /\ budget_usage["reserve"] = NumThreads * CallsPerThread
    /\ minute_requests[1] < minute_requests[Len(minute_requests)]

\* C7: calls of mark_seen and of record_error made concurrently behave as
\* if executed one at a time.  Whenever no call is under way, the record of
\* a post id has a seen_count equal to the number of completed mark_seen
\* calls for that id, and the state of an endpoint has an error_count equal
\* to the number of completed record_error calls for that endpoint.
C7_ConcurrentCallsAreAtomic ==
    AllIdle =>
        /\ \A p \in PostIds :
               completed.mark_seen[p] > 0 =>
                   /\ record_of[p] # 0
                   /\ objects[record_of[p]].seen_count
                          = completed.mark_seen[p]
        /\ \A e \in Endpoints :
               completed.record_error[e] > 0 =>
                   /\ state_of[e] # 0
                   /\ objects[state_of[e]].error_count
                          = completed.record_error[e]

(***************************************************************************)
(* Claims about the PollingScheduler (SpecSched)                           *)
(***************************************************************************)

\* C1: a timer-driven poll invokes the poll callback only if
\* RateLimiter.can_request and BackoffHandler.should_retry both permit a
\* request at that moment.  A job that has just run and invoked the
\* callback did so in a state where can_request() and should_retry(endpoint)
\* are true (the job changes neither the clock nor the two components).
C1_CallbackOnlyWhenPermitted ==
    (ret.op = "job" /\ ret.invoked) =>
        /\ CanRequest(NoneStr)
        /\ ShouldRetry(ret.endpoint, "unknown")

(***************************************************************************)
(* Claims about robots.txt rules (SpecRobots)                              *)
(***************************************************************************)

\* The positions of the rules that match the path.
MatchingRules(path) == {i \in 1..Len(rules) : RuleMatches(rules[i], path)}

AdminRules ==
    <<[path |-> <<"/", "admin/", "public/">>, allow |-> TRUE],
      [path |-> <<"/", "admin/">>, allow |-> FALSE]>>

\* C20: within the selected directive set, rules are evaluated in
\* declaration order and the decision of the first rule that matches the
\* path is returned, whatever later rules say; if no rule matches, the path
\* is allowed.  With `Allow: /admin/public/` declared before
\* `Disallow: /admin/`, /admin/public/ is allowed and /admin/settings is
\* denied.
C20_FirstMatchWins ==
    ret.op = "is_allowed" =>
        /\ LET matching == MatchingRules(ret.path)
           IN  IF matching = {} THEN ret.val = TRUE
               ELSE \E i \in matching :
                        /\ \A j \in matching : i <= j
                        /\ ret.val = rules[i].allow
        /\ rules = AdminRules =>
               /\ ret.path = <<"/", "admin/", "public/">> => ret.val = TRUE
               /\ ret.path = <<"/", "admin/", "settings">> => ret.val = FALSE

\* /admin/public/ has been allowed by the first of two rules that both
\* match it, the second of which denies it.
C20_Witness ==
    /\ ret.op = "is_allowed"
    /\ rules = AdminRules
    /\ ret.path = <<"/", "admin/", "public/">>
    /\ MatchingRules(ret.path) = {1, 2}
    /\ ret.val = TRUE

(***************************************************************************)
(* Claims about the robots checker (SpecAgents)                            *)
(***************************************************************************)

\* The positions of the blocks whose agent token equals the identity,
\* whatever the case of the letters.
ExactBlocks ==
    {i \in 1..Len(directives_list) :
        Lower(directives_list[i].user_agent) = Lower(user_agent)}

\* The positions of the blocks whose token contains the identity or is
\* contained in it.
PartialBlocks ==
    {i \in 1..Len(directives_list) :
        \/ Contains(Lower(directives_list[i].user_agent), Lower(user_agent))
        \/ Contains(Lower(user_agent), Lower(directives_list[i].user_agent))}

\* The positions of the `*` blocks.
WildcardBlocks ==
    {i \in 1..Len(directives_list) : directives_list[i].user_agent = <<"*">>}

\* C21: for any list of parsed blocks in any order, the block selected for
\* the requester identity is a block whose agent token equals the identity
\* case-insensitively, if one exists; otherwise a block whose token
\* contains or is contained in the identity; otherwise the `*` block;
\* otherwise none, and then every path is allowed.
C21_SelectionPriority ==
    /\ ret.op = "find_matching_directives" =>
           IF ExactBlocks # {} THEN ret.val \in ExactBlocks
           ELSE IF PartialBlocks # {} THEN ret.val \in PartialBlocks
           ELSE IF WildcardBlocks # {} THEN ret.val \in WildcardBlocks
           ELSE ret.val = NoDirectives
    /\ (/\ ret.op = "allowed_by_directives"
        /\ ExactBlocks \cup PartialBlocks \cup WildcardBlocks = {})
       => ret.val = TRUE

\* A partial match has been chosen although a `*` block follows it in the
\* list and no block is an exact match.
C21_Witness ==
    /\ ret.op = "find_matching_directives"
    /\ ExactBlocks = {}
    /\ WildcardBlocks # {}
    /\ ret.val \in PartialBlocks \ WildcardBlocks
    /\ \E i \in WildcardBlocks : i > ret.val

(***************************************************************************)
(* Claims about the robots cache (SpecCache)                               *)
(***************************************************************************)

CacheCalls == {"checker_is_allowed", "get_crawl_delay", "get_sitemaps"}

\* What the last call answers when the blocks are its basis.
AnswerFrom(blocks) ==
    CASE ret.op = "checker_is_allowed" ->
             AllowedByDirectives(user_agent, blocks, ret.path)
      [] ret.op = "get_crawl_delay" -> CrawlDelayOf(user_agent, blocks)
      [] ret.op = "get_sitemaps" -> AllSitemaps(blocks)

\* What the last call answers when it has no entry at all.
AnswerWithoutEntry ==
    CASE ret.op = "checker_is_allowed" -> TRUE
      [] ret.op = "get_crawl_delay" -> NoneInt
      [] ret.op = "get_sitemaps" -> {}

\* The last call found an entry of its origin that had not expired, and
\* was not asked to refresh.
FoundFreshEntry ==
    /\ ret.call.origin \in DOMAIN ret.call.before
    /\ now <= ret.call.before[ret.call.origin].expires_at
    /\ ~ret.call.refresh

\* The last call found an entry of its origin that had expired.
FoundStaleEntry ==
    /\ ret.call.origin \in DOMAIN ret.call.before
    /\ now > ret.call.before[ret.call.origin].expires_at

\* The fetch of the last call got no answer from the server.
FetchGotNothing == ret.call.response.kind \in {"timeout", "connect_error"}

\* C22: a robots cache entry is the basis of an answer of is_allowed,
\* get_crawl_delay or get_sitemaps only while the current time is not past
\* its expires-at time (fetched-at + cache duration) and no refresh was
\* requested; once it has expired a fetch is attempted first and the stale
\* entry's rules are never used for the answer.  An unexpired entry is
\* answered without any fetch.
C22_EntryServedOnlyWhileFresh ==
    /\ \A o \in DOMAIN cache :
           cache[o].expires_at = cache[o].fetched_at + cache_duration
    /\ ret.op \in CacheCalls =>
           IF FoundFreshEntry
           THEN /\ ~ret.call.fetched
                /\ cache = ret.call.before
                /\ ret.val = AnswerFrom(cache[ret.call.origin].directives)
           ELSE /\ ret.call.fetched
                /\ ret.val =
                       IF FetchGotNothing THEN AnswerWithoutEntry
                       ELSE AnswerFrom(ParseRobotsTxt(
                                IF ret.call.response.status_code = 200
                                THEN ret.call.response.text
                                ELSE AllowAllContent))

\* is_allowed found an expired entry that denies the path, fetched, and
\* answered from the server's 404 that the path is allowed.
C22_Witness ==
    /\ ret.op = "checker_is_allowed"
    /\ FoundStaleEntry
    /\ ~ret.call.refresh
    /\ ~AllowedByDirectives(user_agent,
                            ret.call.before[ret.call.origin].directives,
                            ret.path)
    /\ ret.call.response = Response(404, <<>>)
    /\ ret.val = TRUE

\* C23: when fetching the crawl policy fails by timeout or connection
\* error, or the server answers HTTP 404, is_allowed returns true for every
\* path of that origin and get_crawl_delay returns none; no failure is
\* raised to the caller.
C23_PermissiveFallback ==
    (/\ ret.op \in {"checker_is_allowed", "get_crawl_delay"}
     /\ ret.call.fetched
     /\ \/ FetchGotNothing
        \/ /\ ret.call.response.kind = "response"
           /\ ret.call.response.status_code = 404)
    => /\ ret.op = "checker_is_allowed" => ret.val = TRUE
       /\ ret.op = "get_crawl_delay" => ret.val = NoneInt

\* The server answered 404 to the fetch of is_allowed for a path that the
\* entry in the cache, asked to be refreshed, denies.
C23_Witness ==
    /\ ret.op = "checker_is_allowed"
    /\ ret.call.fetched
    /\ ret.call.response = Response(404, <<>>)
    /\ ret.call.origin \in DOMAIN ret.call.before
    /\ ~AllowedByDirectives(user_agent,
                            ret.call.before[ret.call.origin].directives,
                            ret.path)
    /\ ret.call.refresh
    /\ ret.val = TRUE

(***************************************************************************)
(* Claims about the activity tracker and the adaptive interval             *)
(* (SpecActivity)                                                          *)
(***************************************************************************)

\* C24: for a category with configured (default, minimum, maximum) the
\* adaptive interval is: minimum if the ActivityTracker is spiking, whatever
\* the rate; otherwise max(default x 0.5, minimum) if activity is high;
\* otherwise min(default x 2, maximum) if activity is low; otherwise
\* default.  With no samples at all (low activity) and default 5m, maximum
\* 30m the result is 10m.
C24_AdaptiveInterval ==
    (ret.op = "get_adaptive_interval" /\ ret.endpoint \in ScheduledEndpoints)
    => /\ LET cfg == DEFAULT_INTERVALS[ret.endpoint]
          IN  ret.val =
                  IF IsSpiking(samples) THEN cfg.minimum
                  ELSE IF IsHighActivity(samples)
                       THEN Max(cfg.default \div 2, cfg.minimum)
                  ELSE IF IsLowActivity(samples)
                       THEN Min(cfg.default * 2, cfg.maximum)
                  ELSE cfg.default
       /\ (samples = <<>> /\ ret.endpoint = "new_posts") => ret.val = 10 * 60

\* The interval of a category is its minimum during a spike although the
\* rate is neither high nor low.
C24_Witness ==
    /\ ret.op = "get_adaptive_interval"
    /\ ret.endpoint = "hot_posts"
    /\ IsSpiking(samples)
    /\ ~IsHighActivity(samples)
    /\ ~IsLowActivity(samples)
    /\ ret.val = 5 * 60

\* C25: is_spiking is true exactly when the sliding window holds at least 3
\* samples and the most recent sample's count exceeds
\* max(historicalRate, 10) x multiplier (default 3), where historicalRate is
\* the total count of the earlier samples divided by their time span in
\* minutes; with fewer than 3 samples it is false.  (The comparison is
\* multiplied by the time span, in seconds: count x span >
\* 3 x max(60 x total, 10 x span).)
C25_IsSpiking ==
    ret.op = "is_spiking" =>
        /\ \A i \in 1..Len(samples) : samples[i][1] > now - WindowSize
        /\ ret.val <=>
               /\ Len(samples) >= 3
               /\ LET n == Len(samples)
                      span == samples[n - 1][1] - samples[1][1]
                      total == SumCounts(SubSeq(samples, 1, n - 1))
                  IN  samples[n][2] * span > 3 * Max(60 * total, 10 * span)
        /\ Len(samples) < 3 => ~ret.val

\* A spike has been found with three samples in the window.
C25_Witness ==
    /\ ret.op = "is_spiking"
    /\ Len(samples) = 3
    /\ ret.val

(***************************************************************************)
(* Claims about the poll states (SpecPoll)                                 *)
(***************************************************************************)

\* What record_poll_result does apart from the cursor: the error count and
\* the last error are reset, the counts are kept, one sample (now, n) is
\* added after the samples still in the window, and the other categories
\* are left alone.
PollRecorded ==
    LET ep == ret.endpoint
        n == ret.posts_fetched
    IN  /\ poll_states[ep].error_count = 0
        /\ poll_states[ep].last_error = NoneStr
        /\ poll_states[ep].total_posts_fetched
               = ret.before[ep].total_posts_fetched + n
        /\ poll_states[ep].posts_fetched_last = n
        /\ samples = Append(CleanupOldSamples(ret.samples_before, now),
                            <<now, n>>)
        /\ \A other \in EndpointType \ {ep} :
               poll_states[other] = ret.before[other]

\* C26, as stated: record_poll_result(category, n, cursor) sets the
\* category's stored cursor to the supplied cursor, resets its error count
\* to 0 and clears its last error, adds n to its cumulative item count,
\* sets its last-poll count to n and appends exactly one sample (now, n) to
\* the ActivityTracker; the poll state of every other category is
\* unchanged.
C26_CursorAlwaysSet ==
    ret.op = "record_poll_result" =>
        /\ poll_states[ret.endpoint].last_post_id = ret.last_post_id
        /\ PollRecorded

\* C26, amended: the stored cursor becomes the supplied cursor when one is
\* supplied, and is kept when the cursor is None or empty; the rest is as
\* stated.
C26_RecordPollResult ==
    ret.op = "record_poll_result" =>
        /\ poll_states[ret.endpoint].last_post_id =
               IF ret.last_post_id \in {NoneStr, ""}
               THEN ret.before[ret.endpoint].last_post_id
               ELSE ret.last_post_id
        /\ PollRecorded

\* A poll reported without a cursor after an error has kept the cursor of
\* an earlier poll and has reset the error count.
C26_Witness ==
    /\ ret.op = "record_poll_result"
    /\ ret.last_post_id = NoneStr
    /\ ret.before[ret.endpoint].last_post_id = "p1"
    /\ ret.before[ret.endpoint].error_count > 0
    /\ ret.posts_fetched > 0
    /\ poll_states[ret.endpoint].last_post_id = "p1"
    /\ poll_states[ret.endpoint].error_count = 0

(***************************************************************************)
(* Claims about failed polls (SpecFailure)                                 *)
(***************************************************************************)

\* A step in which a poll of the category failed: its error count goes up.
PollFailed(ep) ==
    poll_states'[ep].error_count = poll_states[ep].error_count + 1

\* C27: on a poll failure, whether reported through record_poll_error or
\* raised by the callback inside a timer job, the category's error count
\* increases by exactly one and the error description is stored, its cursor
\* and cumulative item count are unchanged, and the adaptive interval is
\* still recomputed and applied to the category's current interval and
\* next-poll time.
C27_FailureStillRecomputesInterval ==
    [][\A ep \in EndpointType :
          PollFailed(ep) =>
              LET interval ==
                      GetAdaptiveInterval(ep, CleanupOldSamples(samples, now))
              IN  /\ poll_states'[ep].last_error # NoneStr
                  /\ poll_states'[ep].last_post_id
                         = poll_states[ep].last_post_id
                  /\ poll_states'[ep].total_posts_fetched
                         = poll_states[ep].total_posts_fetched
                  /\ poll_states'[ep].current_interval = interval
                  /\ poll_states'[ep].next_poll_at = now + interval]_vars

(***************************************************************************)
(* Claims about the persisted poll states (SpecPersist, SpecRestore)       *)
(***************************************************************************)

\* C28: round trip of poll state: for any reachable scheduler state,
\* restore_state applied on a fresh scheduler to the snapshot returned by
\* get_state_for_persistence reproduces, for every endpoint category, the
\* cursor, the last poll time, the error count and the cumulative item
\* count.
C28_PersistenceRoundTrip ==
    ret.op = "restart" =>
        \A ep \in EndpointType :
            /\ poll_states[ep].last_post_id = ret.before[ep].last_post_id
            /\ poll_states[ep].last_poll_at = ret.before[ep].last_poll_at
            /\ poll_states[ep].error_count = ret.before[ep].error_count
            /\ poll_states[ep].total_posts_fetched
                   = ret.before[ep].total_posts_fetched

\* A scheduler was restarted after a poll at a time past the first minute
\* and an error, and has the cursor, the time, the error and the count.
C28_Witness ==
    /\ ret.op = "restart"
    /\ poll_states["new_posts"].last_post_id = "p1"
    /\ poll_states["new_posts"].last_poll_at % 3600 = 60
    /\ poll_states["new_posts"].error_count = 1
    /\ poll_states["new_posts"].total_posts_fetched > 0
    /\ poll_states["hot_posts"].last_poll_at = NoneInt

\* An entry restore_state cannot parse: the name of no category, a value
\* that is no dict, or a last_poll_at that is no time.
Unparseable(entry) ==
    \/ entry.name \notin EndpointType
    \/ entry.data.shape # "dict"
    \/ entry.data.last_poll_at.kind \in {"malformed", "number"}

\* The category has the values of the entry.
RestoredFrom(entry) ==
    LET st == poll_states[entry.name]
    IN  /\ st.last_post_id = entry.data.last_post_id
        /\ st.error_count = entry.data.error_count
        /\ st.total_posts_fetched = entry.data.total_posts_fetched
        /\ entry.data.last_poll_at.kind = "text" =>
               st.last_poll_at = FromIsoFormat(entry.data.last_poll_at)

\* C29: restore_state never aborts on malformed persisted state: for a
\* snapshot in which one entry is unparseable (unknown category name,
\* malformed timestamp, or a value of the wrong shape), that entry is
\* skipped, leaving the poll state of its category unchanged, and every
\* well-formed entry of the snapshot is still restored.
C29_MalformedEntrySkipped ==
    (/\ ret.op = "restore_state"
     /\ \E i \in 1..Len(ret.state_data) :
            /\ Unparseable(ret.state_data[i])
            /\ \A j \in 1..Len(ret.state_data) \ {i} :
                   ~Unparseable(ret.state_data[j]))
    => /\ ret.raised = NoneStr
       /\ \A i \in 1..Len(ret.state_data) :
              LET entry == ret.state_data[i]
              IN  IF Unparseable(entry)
                  THEN entry.name \in EndpointType =>
                           poll_states[entry.name] = ret.before[entry.name]
                  ELSE RestoredFrom(entry)

(***************************************************************************)
(* Claims about the on-demand endpoint types (SpecOnDemand)                *)
(***************************************************************************)

OnDemandEndpoints == {"comments", "agents"}

\* C30: on-demand categories (comments, agents) never enter the
\* timer-driven cycle: start() creates timers for exactly the five
\* scheduled categories, and the poll callback is invoked for an on-demand
\* category only by an explicit trigger_poll call, which invokes it
\* directly, with no timer.
C30_OnDemandNeverScheduled ==
    /\ scheduler.present =>
           DOMAIN scheduler.jobs =
               {"new_posts", "hot_posts", "top_posts", "rising_posts",
                "submolts"}
    /\ (ret.op \in {"job", "trigger_poll"} /\ ret.invoked
            /\ ret.endpoint \in OnDemandEndpoints)
       => ret.op = "trigger_poll"
    /\ ret.op = "trigger_poll" => ret.invoked = poll_callback
    /\ \A ep \in OnDemandEndpoints :
           /\ poll_states[ep].current_interval = NoneInt
           /\ poll_states[ep].next_poll_at = NoneInt

\* A running scheduler with its five timers was asked for comments by
\* trigger_poll and invoked the callback.
C30_Witness ==
    /\ ret.op = "trigger_poll"
    /\ ret.endpoint = "comments"
    /\ ret.invoked
    /\ running
    /\ scheduler.present
    /\ "comments" \notin DOMAIN scheduler.jobs

(***************************************************************************)
(* Claims about stop() (SpecShutdown)                                      *)
(***************************************************************************)

C32_WaitTimeZeroIffCanRequest ==
    ret.op = "wait_time" =>
        /\ (ret.val = 0) <=> CanRequest(NoneStr)
        /\ (HardLimitedAt(now) \/ ApiBlockedAt(now)) => ret.val > 0

\* The queries that run _cleanup_old_requests.
CleanupQueries == {"can_request", "wait_time", "get_status", "check_thresholds"}

\* The timestamps of q that are not older than t - window, in their order.
InsideWindow(q, window, t) == SelectSeq(q, LAMBDA x : x >= t - window)

\* C33: after any cleanup pass run at time now (by can_request, wait_time,
\* get_status or check_thresholds), none of the three sliding windows
\* retains a timestamp older than now - its window duration, and no
\* timestamp that is still inside its window has been removed.
C33_CleanupKeepsExactlyTheWindow ==
    [][ret'.op \in CleanupQueries =>
           /\ minute_requests'
                  = InsideWindow(minute_requests, config.minute_window, now)
           /\ hour_requests'
                  = InsideWindow(hour_requests, config.hour_window, now)
           /\ day_requests'
                  = InsideWindow(day_requests, config.day_window, now)]_vars

\* A cleanup pass has dropped two timestamps from the minute window and
\* kept the one on its boundary, and has kept more in the longer windows.
C33_Witness ==
    /\ ret.op \in CleanupQueries
    /\ Len(minute_requests) = 1
    /\ Head(minute_requests) = now - config.minute_window
    /\ Len(hour_requests) = 2
    /\ Len(day_requests) = 3

\* C35: when several execution contexts each call can_request() and call
\* record_request() only if it returned true, the number of timestamps
\* inside the minute window never exceeds requests_per_minute (and likewise
\* for the hour and day windows), under every interleaving of the contexts.
C35_GuardedRequestsStayInLimits ==
    /\ Len(InsideWindow(minute_requests, config.minute_window, now))
           <= config.requests_per_minute
    /\ Len(InsideWindow(hour_requests, config.hour_window, now))
           <= config.requests_per_hour
    /\ Len(InsideWindow(day_requests, config.day_window, now))
           <= config.requests_per_day

\* C36: when every request of a category is recorded with
\* record_request(category) only after can_request(category) returned
\* true, that category's recorded usage between two budget resets never
\* exceeds floor(requests_per_minute * its allocation)
\* + floor(requests_per_minute * reserve allocation): borrowing from the
\* reserve consumes the reserve.
C36_BorrowingConsumesReserve ==
    \A b \in RequestBudget \ {"reserve"} :
        budget_usage[b] <= MaxForBudget(b) + MaxForBudget("reserve")

(***************************************************************************)
(* More claims about the BackoffHandler (SpecAllowed)                      *)
(***************************************************************************)

\* The retry-after the endpoint's last error was recorded with, in seconds
\* (NoneInt when it had none): retry_after is last_error_at plus it.
LastRetryAfter(st) ==
    IF st.retry_after = NoneInt THEN NoneInt
    ELSE st.retry_after - st.last_error_at

\* C37: for every endpoint and every sequence of record_error and
\* record_success calls, get_next_allowed_time never returns a time later
\* than the endpoint's last error time + max_delay, and never a time later
\* than the last error time + the delay that record_error returned for that
\* error when a (positive) retry-after was supplied; it returns none for an
\* endpoint with no recorded error.  Times are in hundredths of a second.
C37_NextAllowedTimeBounded ==
    ret.op = "get_next_allowed_time" =>
        LET st == GetState(ret.endpoint)
        IN  /\ st.last_error_at = NoneInt => ret.val = NoneInt
            /\ ret.val # NoneInt =>
                   ret.val <= (st.last_error_at + backoff_config.max_delay) * 100
            /\ (ret.val # NoneInt /\ LastRetryAfter(st) # NoneInt
                    /\ LastRetryAfter(st) > 0) =>
                   ret.val <= st.last_error_at * 100
                              + CalculateDelay(st, st.last_error_type,
                                               LastRetryAfter(st), 100)

(***************************************************************************)
(* More claims about the DeduplicationTracker (SpecDedup)                  *)
(***************************************************************************)

\* C38: cleanup_expired never weakens duplicate detection for records that
\* are not expired: after any sequence of mark_seen and cleanup_expired
\* calls, for every record still in the identity index
\* is_duplicate(other identity, that record's fingerprint) is true.
C38_LiveFingerprintsStayIndexed ==
    \A p \in DOMAIN by_id :
        TrackerIsDuplicate(Tracker, "another", by_id[p].content_hash)

(***************************************************************************)
(* More claims about the PollingScheduler (SpecPoll, SpecBounds,           *)
(* SpecCallback)                                                           *)
(***************************************************************************)

\* C34: after record_poll_result(category, n) the category's recorded
\* current interval and next-poll time are the adaptive interval computed
\* from the ActivityTracker state that already includes the sample n just
\* recorded: a successful poll whose count makes the tracker spike leaves
\* the category's current interval at its minimum.
C34_IntervalIncludesNewSample ==
    ret.op = "record_poll_result" =>
        LET st == poll_states[ret.endpoint]
            interval == GetAdaptiveInterval(ret.endpoint, samples)
        IN  /\ st.current_interval = interval
            /\ st.next_poll_at = now + interval
            /\ IsSpiking(samples) =>
                   st.current_interval = DEFAULT_INTERVALS[ret.endpoint].minimum

\* The interval lies between the endpoint type's minimum and maximum.
WithinBounds(endpoint_type, interval) ==
    /\ DEFAULT_INTERVALS[endpoint_type].minimum <= interval
    /\ interval <= DEFAULT_INTERVALS[endpoint_type].maximum

\* C39: for each of the five scheduled categories and every reachable
\* ActivityTracker state, the adaptive interval lies between the category's
\* configured minimum and maximum, so the category's current interval and
\* timer period never leave [minimum, maximum] in any reachable scheduler
\* state.
C39_IntervalWithinBounds ==
    \A ep \in {"new_posts", "hot_posts", "top_posts", "rising_posts",
                "submolts"} :
        /\ WithinBounds(ep, GetAdaptiveInterval(ep, samples))
        /\ WithinBounds(ep, GetAdaptiveInterval(ep,
                                CleanupOldSamples(samples, now)))
        /\ (ret.op = "get_adaptive_interval" /\ ret.endpoint = ep) =>
               WithinBounds(ep, ret.val)
        /\ poll_states[ep].current_interval # NoneInt =>
               WithinBounds(ep, poll_states[ep].current_interval)
        /\ scheduler.present => WithinBounds(ep, scheduler.jobs[ep])

\* After high activity the timer of hot_posts runs at half its default,
\* which is its recorded interval too, and the adaptive interval of
\* new_posts has just been given as its minimum, on a spike.
C39_Witness ==
    /\ scheduler.present
    /\ scheduler.jobs["hot_posts"] = 450
    /\ poll_states["hot_posts"].current_interval = 450
    /\ ret.op = "get_adaptive_interval"
    /\ ret.endpoint = "new_posts"
    /\ ret.val = 60
    /\ IsSpiking(samples)

====
